---- MODULE Spec2Model ----
(***************************************************************************)
(* Model of the comfy_frontend job queue: the durable store (db.py), the   *)
(* worker loop (worker.py) and the HTTP adapter's calls into them (app.py).*)
(*                                                                         *)
(* Threads.  The adapter and the worker share ONE sqlite connection        *)
(* (db.py:19, check_same_thread=False), so every SQL statement of one      *)
(* thread is immediately visible to the other and the unit of atomicity is *)
(* the single statement.  The model has one adapter thread (api) and one   *)
(* worker loop thread (wk); each action below is one statement (or one     *)
(* upstream HTTP call together with the statement that records its result).*)
(* Timestamps are abstracted to NULL / "ts"; created_at grows with job id. *)
(***************************************************************************)
EXTENDS Naturals, Integers, Sequences, FiniteSets, TLC

VARIABLES
    jobs,        \* table jobs: sequence, index = id (AUTOINCREMENT)
    prompts,     \* table prompts: sequence, index = id (AUTOINCREMENT)
    paused,      \* queue_state.paused
    wk,          \* the worker loop thread: program counter and locals
    api,         \* the adapter thread: program counter and locals of the call
    ops,         \* number of adapter calls started so far
    answers,     \* the upstream answers explored: one per class, or every one
    spec_n,      \* history: number of prompt specs passed to create_job, per job
    cancel_ret,  \* history: jobs whose cancel_job returned and that were not retried since
    inflight,    \* history: prompts this worker run marked running and has not finalized
    posted,      \* history: prompts posted to the upstream and not reset by retry_job since
    w_thread,    \* Worker._thread: 0 for None, else the index of a thread in threads
    w_running,   \* Worker._running
    stop_event,  \* Worker._stop_event
    threads,     \* the loop threads created so far: position of each
    req,         \* the request threads: position of each in _ensure_worker_running
    serving,     \* FALSE once on_shutdown ran
    pfile,       \* prompts.input_file, by prompt id
    jmove,       \* jobs.move_processed, by job id
    moved,       \* the input files that were moved into _processed/
    fn           \* a store or builder function called on its own: call and result

LifeVars == <<w_thread, w_running, stop_event, threads, req, serving>>
StoreVars == <<jobs, prompts, wk, api, ops, answers, spec_n, cancel_ret, inflight, posted>>
FileVars == <<pfile, jmove, moved>>
vars == <<jobs, prompts, paused, wk, api, ops, answers, spec_n, cancel_ret, inflight, posted,
          w_thread, w_running, stop_event, threads, req, serving, pfile, jmove, moved, fn>>

----------------------------------------------------------------------------
(* Bounds of the model *)

MaxJobs == 2
MaxPrompts == 2
MaxOps == 3
MaxRows == 2
MaxPriority == 1
MaxThreads == 3
NumReq == 2
MaxChildren == 4
MaxQueued == 3

----------------------------------------------------------------------------
(* Values *)

NULL == "NULL"
Statuses == {"pending", "running", "succeeded", "failed", "canceled"}
TerminalStatuses == {"succeeded", "failed", "canceled"}
NoCounts == [s \in Statuses |-> 0]

(* db.py:130-135, the row create_job inserts into jobs *)
NewJob(priority) ==
    [status |-> "pending", cancel_requested |-> 0, priority |-> priority,
     started_at |-> NULL, finished_at |-> NULL]

(* db.py:138-150, the row create_job inserts into prompts *)
NewPrompt(j) ==
    [job_id |-> j, status |-> "pending", prompt_id |-> NULL, started_at |-> NULL,
     finished_at |-> NULL, exit_status |-> NULL, error_detail |-> NULL,
     output_paths |-> "[]"]

PromptsOf(ps, j) == {i \in DOMAIN ps : ps[i].job_id = j}

----------------------------------------------------------------------------
(* Store statements (db.py) as functions of the tables *)

(* db.py:177-185 *)
AllowedFields ==
    {"prompt_id", "started_at", "finished_at", "exit_status", "error_detail",
     "output_paths", "seed_used"}

(* db.py:176-196: UPDATE prompts SET status=?, <allowed fields> WHERE id=? *)
UpdatePromptStatus(ps, id, status, fields) ==
    IF id \in DOMAIN ps
    THEN [ps EXCEPT ![id] =
            [k \in DOMAIN @ |->
                IF k = "status" THEN status
                ELSE IF k \in (DOMAIN fields) \cap AllowedFields THEN fields[k]
                ELSE @[k]]]
    ELSE ps

(* db.py:198-208 *)
JobPromptCounts(ps, j) ==
    [s \in Statuses |-> Cardinality({i \in PromptsOf(ps, j) : ps[i].status = s})]

CountsTotal(counts) ==
    counts["pending"] + counts["running"] + counts["succeeded"]
        + counts["failed"] + counts["canceled"]

(* variant of DeriveStatus: a mix of succeeded and canceled is canceled whatever
   cancel_requested is *)
DeriveStatusMixCanceled(counts, cancel_requested) ==
    IF CountsTotal(counts) = 0 THEN "pending"
    ELSE IF counts["running"] > 0 THEN "running"
    ELSE IF counts["pending"] > 0 THEN "pending"
    ELSE IF counts["failed"] > 0 THEN "failed"
    ELSE IF counts["succeeded"] = CountsTotal(counts) THEN "succeeded"
    ELSE "canceled"

(* db.py:222-237, the ordered status rule *)
DeriveStatus(counts, cancel_requested) ==
    IF CountsTotal(counts) = 0 THEN "pending"
    ELSE IF counts["running"] > 0 THEN "running"
    ELSE IF counts["pending"] > 0 THEN "pending"
    ELSE IF counts["failed"] > 0 THEN "failed"
    ELSE IF counts["succeeded"] = CountsTotal(counts) THEN "succeeded"
    ELSE IF counts["canceled"] = CountsTotal(counts) THEN "canceled"
    ELSE IF counts["succeeded"] > 0 /\ counts["canceled"] > 0 /\ cancel_requested = 1
         THEN "canceled"
    ELSE "succeeded"

(* db.py:239-240 *)
StartedVal(started_read, status) ==
    IF started_read # NULL THEN started_read
    ELSE IF status \in {"running"} \cup TerminalStatuses THEN "ts"
    ELSE NULL

(* db.py:241-246: UPDATE jobs SET status=?, started_at=COALESCE(started_at, ?),
   finished_at=? WHERE id=? *)
JobStatusWrite(js, j, status, started_val) ==
    IF j \in DOMAIN js
    THEN [js EXCEPT ![j].status = status,
                    ![j].started_at = IF @ # NULL THEN @ ELSE started_val,
                    ![j].finished_at = IF status \in TerminalStatuses THEN "ts" ELSE NULL]
    ELSE js

(* variant of CancelPendingUpdate: WHERE job_id=? AND status IN ('pending','running') *)
CancelPendingAndRunning(ps, j) ==
    [i \in DOMAIN ps |->
        IF ps[i].job_id = j /\ ps[i].status \in {"pending", "running"}
        THEN [ps[i] EXCEPT !.status = "canceled", !.finished_at = "ts"]
        ELSE ps[i]]

(* variant of CancelPendingUpdate: the UPDATE stops after the first row *)
CancelFirstPending(ps, j) ==
    [i \in DOMAIN ps |->
        IF /\ ps[i].job_id = j /\ ps[i].status = "pending"
           /\ \A k \in 1..(i - 1) : ~(ps[k].job_id = j /\ ps[k].status = "pending")
        THEN [ps[i] EXCEPT !.status = "canceled", !.finished_at = "ts"]
        ELSE ps[i]]

(* db.py:324-327 and 377-380: UPDATE prompts SET status='canceled', finished_at=?
   WHERE job_id=? AND status='pending' *)
CancelPendingUpdate(ps, j) ==
    [i \in DOMAIN ps |->
        IF ps[i].job_id = j /\ ps[i].status = "pending"
        THEN [ps[i] EXCEPT !.status = "canceled", !.finished_at = "ts"]
        ELSE ps[i]]

(* variant of RetryPromptsUpdate: the WHERE clause without job_id=? *)
RetryEveryJob(ps, j) ==
    [i \in DOMAIN ps |->
        IF ps[i].status = "failed"
        THEN [ps[i] EXCEPT !.status = "pending", !.prompt_id = NULL,
                           !.started_at = NULL, !.finished_at = NULL,
                           !.exit_status = NULL, !.error_detail = NULL,
                           !.output_paths = "[]"]
        ELSE ps[i]]

(* variant of RetryPromptsUpdate: exit_status and error_detail left as they are *)
RetryPromptsKeepsError(ps, j) ==
    [i \in DOMAIN ps |->
        IF ps[i].job_id = j /\ ps[i].status = "failed"
        THEN [ps[i] EXCEPT !.status = "pending", !.prompt_id = NULL,
                           !.started_at = NULL, !.finished_at = NULL,
                           !.output_paths = "[]"]
        ELSE ps[i]]

(* db.py:352-360: UPDATE prompts SET status='pending', prompt_id=NULL, ...
   WHERE job_id=? AND status='failed' *)
RetryPromptsUpdate(ps, j) ==
    [i \in DOMAIN ps |->
        IF ps[i].job_id = j /\ ps[i].status = "failed"
        THEN [ps[i] EXCEPT !.status = "pending", !.prompt_id = NULL,
                           !.started_at = NULL, !.finished_at = NULL,
                           !.exit_status = NULL, !.error_detail = NULL,
                           !.output_paths = "[]"]
        ELSE ps[i]]

(* variant of RetryJobUpdate: finished_at left as it is *)
RetryJobKeepsFinished(js, j) ==
    IF j \in DOMAIN js
    THEN [js EXCEPT ![j].status = "pending", ![j].cancel_requested = 0,
                    ![j].started_at = NULL]
    ELSE js

(* variant of RetryJobUpdate: cancel_requested left as it is *)
RetryJobKeepsCancel(js, j) ==
    IF j \in DOMAIN js
    THEN [js EXCEPT ![j].status = "pending", ![j].started_at = NULL,
                    ![j].finished_at = NULL]
    ELSE js

(* db.py:361-364: UPDATE jobs SET status='pending', cancel_requested=0,
   started_at=NULL, finished_at=NULL, last_error=NULL WHERE id=? *)
RetryJobUpdate(js, j) ==
    IF j \in DOMAIN js
    THEN [js EXCEPT ![j].status = "pending", ![j].cancel_requested = 0,
                    ![j].started_at = NULL, ![j].finished_at = NULL]
    ELSE js

(* variant of Eligible: the WHERE clause without j.status IN ('pending','running') *)
EligibleAnyJobStatus(ps, js, i) ==
    /\ ps[i].status = "pending"
    /\ js[ps[i].job_id].cancel_requested = 0

(* variant of Eligible: WHERE p.status IN ('pending','failed') *)
EligibleOrFailed(ps, js, i) ==
    /\ ps[i].status \in {"pending", "failed"}
    /\ js[ps[i].job_id].status \in {"pending", "running"}
    /\ js[ps[i].job_id].cancel_requested = 0

(* db.py:157, the WHERE clause of next_pending_prompt *)
Eligible(ps, js, i) ==
    /\ ps[i].status = "pending"
    /\ js[ps[i].job_id].status \in {"pending", "running"}
    /\ js[ps[i].job_id].cancel_requested = 0

(* variant of Before: ORDER BY j.created_at ASC, p.id ASC, the priority left out *)
BeforeNoPriority(ps, js, a, b) ==
    LET ja == ps[a].job_id
        jb == ps[b].job_id
    IN  \/ ja < jb
        \/ ja = jb /\ a < b

(* db.py:169: ORDER BY j.priority DESC, j.created_at ASC, p.id ASC *)
Before(ps, js, a, b) ==
    LET ja == ps[a].job_id
        jb == ps[b].job_id
    IN  \/ js[ja].priority > js[jb].priority
        \/ js[ja].priority = js[jb].priority /\ ja < jb
        \/ js[ja].priority = js[jb].priority /\ ja = jb /\ a < b

(* db.py:163-174: the SELECT ... LIMIT 1 of next_pending_prompt; 0 = no row *)
SelectNextPending(ps, js) ==
    LET cand == {i \in DOMAIN ps : Eligible(ps, js, i)}
    IN  IF cand = {} THEN 0
        ELSE CHOOSE i \in cand : \A k \in cand \ {i} : Before(ps, js, i, k)

(* db.py:153-174: next_pending_prompt(job_id) as a whole, job_id = 0 for None;
   0 = no row *)
NextPendingPrompt(ps, js, pz, job_id) ==
    IF pz THEN 0
    ELSE LET cand == {i \in DOMAIN ps :
                        Eligible(ps, js, i) /\ (job_id = 0 \/ ps[i].job_id = job_id)}
         IN  IF cand = {} THEN 0
             ELSE CHOOSE i \in cand : \A k \in cand \ {i} : Before(ps, js, i, k)

(* db.py:266-276: ids of the running prompts, ORDER BY p.id ASC *)
RECURSIVE SortedIds(_)
SortedIds(S) ==
    IF S = {} THEN <<>>
    ELSE LET m == CHOOSE x \in S : \A y \in S : x <= y
         IN  <<m>> \o SortedIds(S \ {m})

ListRunningPrompts(ps) == SortedIds({i \in DOMAIN ps : ps[i].status = "running"})

----------------------------------------------------------------------------
(* update_job_status (db.py:210-248) as three statements of a thread t, a   *)
(* record with fields pc, ret, job, counts, status, started.               *)

(* db.py:211, SELECT status, COUNT ... GROUP BY status *)
UjsCounts(t) ==
    [t EXCEPT !.counts = JobPromptCounts(prompts, t.job), !.pc = "ujs_row"]

(* db.py:214-240, SELECT started_at, cancel_requested; the rule *)
UjsRow(t) ==
    IF t.job \notin DOMAIN jobs
    THEN [t EXCEPT !.status = "pending", !.counts = NoCounts, !.pc = t.ret]
    ELSE LET st == DeriveStatus(t.counts, jobs[t.job].cancel_requested)
         IN  [t EXCEPT !.status = st,
                       !.started = StartedVal(jobs[t.job].started_at, st),
                       !.counts = NoCounts, !.pc = "ujs_write"]

(* db.py:243-248, the UPDATE and the return *)
UjsWrite(t) == [t EXCEPT !.started = NULL, !.pc = t.ret]

----------------------------------------------------------------------------
(* The adapter thread: one call at a time, statement by statement *)

ApiIdle ==
    [pc |-> "idle", op |-> "none", job |-> 0, ret |-> "none", counts |-> NoCounts,
     status |-> NULL, started |-> NULL, cnt |-> 0, running |-> 0, left |-> 0,
     prio |-> 0, found |-> FALSE, detail |-> NULL, mode |-> NULL,
     solo |-> TRUE, pre_flag |-> 0, pre_status |-> NULL]

(* history: a worker step taken while a call is in progress ends the call's
   being uninterrupted *)
ApiSeen == IF api.pc = "idle" THEN api ELSE [api EXCEPT !.solo = FALSE]

ApiOnly == UNCHANGED <<wk, inflight, answers, fn>> /\ UNCHANGED LifeVars /\ UNCHANGED FileVars

(* app.py:919-927, a request reaches QueueDB.create_job with n >= 1 specs *)
ACreateCall ==
    /\ api.pc = "idle" /\ ops < MaxOps /\ Len(jobs) < MaxJobs
    /\ \E n \in 1..MaxPrompts, pr \in 0..MaxPriority :
          /\ Len(prompts) + n <= MaxRows
          /\ api' = [ApiIdle EXCEPT !.pc = "cj_job", !.op = "create", !.left = n, !.prio = pr]
    /\ ops' = ops + 1
    /\ UNCHANGED <<jobs, prompts, paused, spec_n, cancel_ret, posted>> /\ ApiOnly

(* db.py:128-136, INSERT INTO jobs *)
ACreateJob ==
    /\ api.pc = "cj_job"
    /\ jobs' = Append(jobs, NewJob(api.prio))
    /\ spec_n' = Append(spec_n, api.left)
    /\ api' = [api EXCEPT !.job = Len(jobs) + 1, !.prio = 0, !.pc = "cj_prompt"]
    /\ UNCHANGED <<prompts, paused, ops, cancel_ret, posted>> /\ ApiOnly

(* db.py:137-151, one INSERT INTO prompts of the loop; after the last one the
   with-block commits and create_job returns *)
ACreatePrompt ==
    /\ api.pc = "cj_prompt" /\ api.left > 0
    /\ prompts' = Append(prompts, NewPrompt(api.job))
    /\ api' = [api EXCEPT !.left = @ - 1, !.found = TRUE,
                          !.pc = IF api.left = 1 THEN "ret" ELSE "cj_prompt"]
    /\ UNCHANGED <<jobs, paused, ops, spec_n, cancel_ret, posted>> /\ ApiOnly

(* app.py:1044-1046, a request reaches QueueDB.cancel_job(j) *)
ACancelCall ==
    /\ api.pc = "idle" /\ ops < MaxOps
    /\ \E j \in 1..MaxJobs :
          api' = [ApiIdle EXCEPT !.pc = "cx_exists", !.op = "cancel", !.job = j,
                     !.pre_flag = IF j \in DOMAIN jobs THEN jobs[j].cancel_requested ELSE 0,
                     !.pre_status = IF j \in DOMAIN jobs THEN jobs[j].status ELSE NULL]
    /\ ops' = ops + 1
    /\ UNCHANGED <<jobs, prompts, paused, spec_n, cancel_ret, posted>> /\ ApiOnly

(* db.py:318-320 *)
ACancelExists ==
    /\ api.pc = "cx_exists"
    /\ api' = IF api.job \in DOMAIN jobs THEN [api EXCEPT !.pc = "cx_upd"]
              ELSE [api EXCEPT !.pc = "ret", !.found = FALSE]
    /\ UNCHANGED <<jobs, prompts, paused, ops, spec_n, cancel_ret, posted>> /\ ApiOnly

(* db.py:324-328, UPDATE prompts ... ; canceled_pending = rowcount *)
ACancelUpd ==
    /\ api.pc = "cx_upd"
    /\ prompts' = CancelPendingUpdate(prompts, api.job)
    /\ api' = [api EXCEPT !.pc = "cx_flag",
                  !.cnt = Cardinality({i \in PromptsOf(prompts, api.job) :
                                          prompts[i].status = "pending"})]
    /\ UNCHANGED <<jobs, paused, ops, spec_n, cancel_ret, posted>> /\ ApiOnly

(* db.py:329, UPDATE jobs SET cancel_requested=1 *)
SetCancelRequested(js, j) ==
    IF j \in DOMAIN js THEN [js EXCEPT ![j].cancel_requested = 1] ELSE js

ACancelFlag ==
    /\ api.pc = "cx_flag"
    /\ jobs' = SetCancelRequested(jobs, api.job)
    /\ api' = [api EXCEPT !.pc = "cx_count"]
    /\ UNCHANGED <<prompts, paused, ops, spec_n, cancel_ret, posted>> /\ ApiOnly

(* db.py:331-338, SELECT COUNT ... status='running'; then update_job_status *)
ACancelCount ==
    /\ api.pc = "cx_count"
    /\ api' = [api EXCEPT !.pc = "ujs_counts", !.ret = "get_job",
                  !.running = Cardinality({i \in PromptsOf(prompts, api.job) :
                                              prompts[i].status = "running"})]
    /\ UNCHANGED <<jobs, prompts, paused, ops, spec_n, cancel_ret, posted>> /\ ApiOnly

(* app.py:1052-1054, a request reaches QueueDB.retry_job(j) *)
ARetryCall ==
    /\ api.pc = "idle" /\ ops < MaxOps
    /\ \E j \in 1..MaxJobs :
          /\ api' = [ApiIdle EXCEPT !.pc = "rt_upd", !.op = "retry", !.job = j]
          /\ cancel_ret' = cancel_ret \ {j}
    /\ ops' = ops + 1
    /\ UNCHANGED <<jobs, prompts, paused, spec_n, posted>> /\ ApiOnly

(* db.py:352-360, UPDATE prompts ... WHERE job_id=? AND status='failed' *)
ARetryUpd ==
    /\ api.pc = "rt_upd"
    /\ prompts' = RetryPromptsUpdate(prompts, api.job)
    /\ api' = [api EXCEPT !.pc = "rt_job",
                  !.cnt = Cardinality({i \in PromptsOf(prompts, api.job) :
                                          prompts[i].status = "failed"})]
    /\ posted' = posted \ {i \in PromptsOf(prompts, api.job) : prompts[i].status = "failed"}
    /\ UNCHANGED <<jobs, paused, ops, spec_n, cancel_ret>> /\ ApiOnly

(* db.py:361-365, UPDATE jobs ...; then update_job_status *)
ARetryJob ==
    /\ api.pc = "rt_job"
    /\ jobs' = RetryJobUpdate(jobs, api.job)
    /\ api' = [api EXCEPT !.pc = "ujs_counts", !.ret = "get_job"]
    /\ UNCHANGED <<prompts, paused, ops, spec_n, cancel_ret, posted>> /\ ApiOnly

(* update_job_status called from cancel_job (db.py:338) and retry_job (db.py:365) *)
AUjsCounts ==
    /\ api.pc = "ujs_counts"
    /\ api' = UjsCounts(api)
    /\ UNCHANGED <<jobs, prompts, paused, ops, spec_n, cancel_ret, posted>> /\ ApiOnly

AUjsRow ==
    /\ api.pc = "ujs_row"
    /\ api' = UjsRow(api)
    /\ UNCHANGED <<jobs, prompts, paused, ops, spec_n, cancel_ret, posted>> /\ ApiOnly

AUjsWrite ==
    /\ api.pc = "ujs_write"
    /\ jobs' = JobStatusWrite(jobs, api.job, api.status, api.started)
    /\ api' = [UjsWrite(api) EXCEPT !.status = NULL]
    /\ UNCHANGED <<prompts, paused, ops, spec_n, cancel_ret, posted>> /\ ApiOnly

(* db.py:342, the mode of the cancel summary *)
CancelMode(running_now) ==
    IF running_now > 0 THEN "cancel_after_current" ELSE "immediate"

(* db.py:305-315 called at db.py:339 and db.py:366: the job row of the detail;
   db.py:342-348, the summary cancel_job adds *)
AGetJob ==
    /\ api.pc = "get_job"
    /\ api' = IF api.job \in DOMAIN jobs
              THEN [api EXCEPT !.pc = "ret", !.found = TRUE, !.detail = jobs[api.job].status,
                       !.mode = IF api.op = "cancel" THEN CancelMode(api.running) ELSE NULL]
              ELSE [api EXCEPT !.pc = "ret", !.found = FALSE]
    /\ UNCHANGED <<jobs, prompts, paused, ops, spec_n, cancel_ret, posted>> /\ ApiOnly

(* the call returns to the adapter (db.py:151, 320, 348, 366) *)
AReturn ==
    /\ api.pc = "ret"
    /\ cancel_ret' = IF api.op = "cancel" /\ api.found
                     THEN cancel_ret \cup {api.job} ELSE cancel_ret
    /\ api' = ApiIdle
    /\ UNCHANGED <<jobs, prompts, paused, ops, spec_n, posted>> /\ ApiOnly

(* db.py:108-110 via app.py:1060-1063 *)
APause ==
    /\ api.pc = "idle" /\ ops < MaxOps
    /\ paused' = TRUE
    /\ ops' = ops + 1
    /\ UNCHANGED <<jobs, prompts, api, spec_n, cancel_ret, posted>> /\ ApiOnly

(* db.py:112-114 via app.py:1066-1070 *)
AResume ==
    /\ api.pc = "idle" /\ ops < MaxOps
    /\ paused' = FALSE
    /\ ops' = ops + 1
    /\ UNCHANGED <<jobs, prompts, api, spec_n, cancel_ret, posted>> /\ ApiOnly

----------------------------------------------------------------------------
(* The upstream runner, as the answers its client can give (comfy_client.py) *)

(* worker.py:177-212, the exit_status each except clause records *)
RaiseKinds == {"validation_error", "unreachable", "error", "exception"}

(* comfy_client.py:156-160, the status strings poll_until_done returns with ok = False *)
PollFailed == {"error", "failed", "canceled", "timeout"}

(* worker.py:249-293 and 321-362: what a history lookup of a running row can
   yield; "outputs_raise" is a history entry that reports completed, followed
   by a get_outputs (worker.py:262, 332) that raises *)
HistoryAnswers ==
    {"raise", "none", "other", "completed", "outputs_raise", "error", "failed", "canceled"}

(* comfy_client.py:165-193, json.dumps of the output list *)
OutputValues == {"[]", "paths"}

(* Which exit_status is recorded never decides a branch of the store or of the
   worker, so the specification of the queue explores one answer of each class
   (an id or a raise; done, failed or a raise; each reconciliation branch). *)
AnswerClasses ==
    [raise |-> {"error"}, poll |-> {"failed"},
     history |-> {"raise", "none", "completed", "outputs_raise", "failed", "canceled"},
     outputs |-> {"paths"}]

AllAnswers ==
    [raise |-> RaiseKinds, poll |-> PollFailed, history |-> HistoryAnswers,
     outputs |-> OutputValues]

FailFields(exit) == [finished_at |-> "ts", exit_status |-> exit, error_detail |-> "text"]

----------------------------------------------------------------------------
(* The worker loop thread (worker.py:102-227) *)

WkInit ==
    [pc |-> "rec_list", ret |-> "none", row |-> 0, job |-> 0, counts |-> NoCounts,
     status |-> NULL, started |-> NULL, rows |-> <<>>, qavail |-> FALSE]

WkOnly == UNCHANGED <<ops, answers, spec_n, cancel_ret, fn>> /\ UNCHANGED LifeVars /\ UNCHANGED FileVars

(* the locals are dead when the loop body starts over *)
WkLoop == [WkInit EXCEPT !.pc = "loop"]

(* worker.py:106 and 225-227: an exception left _run_loop, the thread is over *)
WkDead == [WkInit EXCEPT !.pc = "dead"]

(* worker.py:296-304, list_running_prompts and the upstream queue listing *)
WRecoverList ==
    /\ wk.pc = "rec_list"
    /\ LET rows == ListRunningPrompts(prompts)
       IN  IF rows = <<>> THEN wk' = WkLoop
           ELSE \E q \in BOOLEAN : wk' = [wk EXCEPT !.pc = "rec_row", !.rows = rows, !.qavail = q]
    /\ api' = ApiSeen
    /\ UNCHANGED <<jobs, prompts, paused, inflight, posted>> /\ WkOnly

(* variant of ReconcileWrite: the pass in the loop marks an unknown prompt
   interrupted as the startup pass does *)
ReconcileWriteBothPasses(ps, r, answer, startup, interrupted) ==
    IF ps[r].prompt_id = NULL
    THEN UpdatePromptStatus(ps, r, "failed", FailFields("interrupted"))
    ELSE IF answer = "completed"
    THEN UpdatePromptStatus(ps, r, "succeeded",
            [finished_at |-> "ts", exit_status |-> "success", output_paths |-> "paths"])
    ELSE IF answer \in {"error", "failed"}
    THEN UpdatePromptStatus(ps, r, "failed", FailFields(answer))
    ELSE IF answer = "canceled"
    THEN UpdatePromptStatus(ps, r, "canceled", FailFields("canceled"))
    ELSE IF answer \in {"none", "other"} /\ interrupted
    THEN UpdatePromptStatus(ps, r, "failed", FailFields("interrupted"))
    ELSE ps

(* the prompt write a reconciliation pass makes for a row, given the upstream's
   answer: worker.py:238-293 (in loop) and 309-374 (startup); NULL = no write *)
ReconcileWrite(ps, r, answer, startup, interrupted) ==
    IF ps[r].prompt_id = NULL
    THEN UpdatePromptStatus(ps, r, "failed", FailFields("interrupted"))
    ELSE IF answer = "completed"
    THEN UpdatePromptStatus(ps, r, "succeeded",
            [finished_at |-> "ts", exit_status |-> "success", output_paths |-> "paths"])
    ELSE IF answer \in {"error", "failed"}
    THEN UpdatePromptStatus(ps, r, "failed", FailFields(answer))
    ELSE IF answer = "canceled"
    THEN UpdatePromptStatus(ps, r, "canceled", FailFields("canceled"))
    ELSE IF startup /\ answer \in {"none", "other"} /\ interrupted
    THEN UpdatePromptStatus(ps, r, "failed", FailFields("interrupted"))
    ELSE ps

(* one row of a reconciliation pass; next = where the pass goes when the rows
   are used up *)
ReconcileRow(startup, here, next) ==
    /\ wk.rows # <<>>
    /\ LET r == Head(wk.rows)
           rest == Tail(wk.rows)
           after == IF rest = <<>> THEN next ELSE here
       IN  \E answer \in answers.history, inq \in BOOLEAN :
              LET ps2 == ReconcileWrite(prompts, r, answer, startup, wk.qavail /\ ~inq)
              IN  /\ prompts' = ps2
                  /\ wk' = IF prompts[r].prompt_id # NULL /\ answer = "outputs_raise"
                           THEN WkDead
                           ELSE IF ps2 = prompts
                           THEN [wk EXCEPT !.rows = rest, !.pc = after,
                                           !.qavail = @ /\ rest # <<>>]
                           ELSE [wk EXCEPT !.rows = rest, !.pc = "ujs_counts",
                                           !.ret = after, !.job = prompts[r].job_id,
                                           !.qavail = @ /\ rest # <<>>]
    /\ api' = ApiSeen
    /\ UNCHANGED <<jobs, paused, inflight, posted>> /\ WkOnly

(* worker.py:306-374 *)
WRecoverRow == wk.pc = "rec_row" /\ ReconcileRow(TRUE, "rec_row", "loop")

(* worker.py:108-117: stop check, pause sleep, health check and backoff sleep *)
WLoop ==
    /\ wk.pc = "loop"
    /\ \E healthy \in BOOLEAN :
          wk' = IF paused \/ ~healthy THEN WkLoop ELSE [WkLoop EXCEPT !.pc = "recon_list"]
    /\ api' = ApiSeen
    /\ UNCHANGED <<jobs, prompts, paused, inflight, posted>> /\ WkOnly

(* worker.py:119 and 230-232 *)
WReconcileList ==
    /\ wk.pc = "recon_list"
    /\ LET rows == ListRunningPrompts(prompts)
       IN  wk' = IF rows = <<>> THEN [wk EXCEPT !.pc = "npp_paused"]
                 ELSE [wk EXCEPT !.pc = "recon_row", !.rows = rows]
    /\ api' = ApiSeen
    /\ UNCHANGED <<jobs, prompts, paused, inflight, posted>> /\ WkOnly

(* worker.py:234-293 *)
WReconcileRow == wk.pc = "recon_row" /\ ReconcileRow(FALSE, "recon_row", "npp_paused")

(* worker.py:121 -> db.py:154-155, is_paused inside next_pending_prompt *)
WNextPaused ==
    /\ wk.pc = "npp_paused"
    /\ wk' = IF paused THEN WkLoop ELSE [wk EXCEPT !.pc = "npp_select"]
    /\ api' = ApiSeen
    /\ UNCHANGED <<jobs, prompts, paused, inflight, posted>> /\ WkOnly

(* worker.py:121-127 -> db.py:157-174, the SELECT *)
WNextSelect ==
    /\ wk.pc = "npp_select"
    /\ LET r == SelectNextPending(prompts, jobs)
       IN  wk' = IF r = 0 THEN WkLoop
                 ELSE [wk EXCEPT !.pc = "cancel_check", !.row = r, !.job = prompts[r].job_id]
    /\ api' = ApiSeen
    /\ UNCHANGED <<jobs, prompts, paused, inflight, posted>> /\ WkOnly

(* worker.py:128-137: get_job, json.loads, is_cancel_requested *)
WCancelCheck ==
    /\ wk.pc = "cancel_check"
    /\ wk' = [wk EXCEPT !.pc = IF jobs[wk.job].cancel_requested = 1
                               THEN "cancel_skip" ELSE "mark_running"]
    /\ api' = ApiSeen
    /\ UNCHANGED <<jobs, prompts, paused, inflight, posted>> /\ WkOnly

(* worker.py:138-145 *)
WCancelSkip ==
    /\ wk.pc = "cancel_skip"
    /\ prompts' = UpdatePromptStatus(prompts, wk.row, "canceled",
                      [finished_at |-> "ts", error_detail |-> "text"])
    /\ wk' = [wk EXCEPT !.pc = "ujs_counts", !.ret = "loop"]
    /\ api' = ApiSeen
    /\ UNCHANGED <<jobs, paused, inflight, posted>> /\ WkOnly

(* worker.py:147-148 *)
WMarkRunning ==
    /\ wk.pc = "mark_running"
    /\ prompts' = UpdatePromptStatus(prompts, wk.row, "running", [started_at |-> "ts"])
    /\ inflight' = inflight \cup {wk.row}
    /\ wk' = [wk EXCEPT !.pc = "ujs_counts", !.ret = "submit"]
    /\ api' = ApiSeen
    /\ UNCHANGED <<jobs, paused, posted>> /\ WkOnly

(* variant of WSubmit: the loop goes on to the next prompt without waiting for
   the submitted one to end *)
WSubmitNoWait ==
    /\ wk.pc = "submit"
    /\ \/ /\ prompts' = UpdatePromptStatus(prompts, wk.row, "running", [prompt_id |-> "uid"])
          /\ wk' = WkLoop
          /\ UNCHANGED inflight
       \/ \E k \in answers.raise :
          /\ prompts' = UpdatePromptStatus(prompts, wk.row, "failed", FailFields(k))
          /\ wk' = [wk EXCEPT !.pc = "cancel_after"]
          /\ inflight' = inflight \ {wk.row}
    /\ api' = ApiSeen
    /\ posted' = posted \cup {wk.row}
    /\ UNCHANGED <<jobs, paused>> /\ WkOnly

(* worker.py:152-154 and 177-212: queue_prompt returns an id, or raises *)
WSubmit ==
    /\ wk.pc = "submit"
    /\ \/ /\ prompts' = UpdatePromptStatus(prompts, wk.row, "running", [prompt_id |-> "uid"])
          /\ wk' = [wk EXCEPT !.pc = "poll"]
          /\ UNCHANGED inflight
       \/ \E k \in answers.raise :
          /\ prompts' = UpdatePromptStatus(prompts, wk.row, "failed", FailFields(k))
          /\ wk' = [wk EXCEPT !.pc = "cancel_after"]
          /\ inflight' = inflight \ {wk.row}
    /\ api' = ApiSeen
    /\ posted' = posted \cup {wk.row}
    /\ UNCHANGED <<jobs, paused>> /\ WkOnly

(* worker.py:156-216: poll_until_done, get_outputs, the terminal write, the log *)
WPoll ==
    /\ wk.pc = "poll"
    /\ \/ \E o \in answers.outputs :
            prompts' = UpdatePromptStatus(prompts, wk.row, "succeeded",
                [finished_at |-> "ts", exit_status |-> "success", output_paths |-> o])
       \/ \E s \in answers.poll \cup answers.raise :
            prompts' = UpdatePromptStatus(prompts, wk.row, "failed", FailFields(s))
    /\ inflight' = inflight \ {wk.row}
    /\ wk' = [wk EXCEPT !.pc = "cancel_after"]
    /\ api' = ApiSeen
    /\ UNCHANGED <<jobs, paused, posted>> /\ WkOnly

(* worker.py:218 *)
WCancelAfter ==
    /\ wk.pc = "cancel_after"
    /\ wk' = IF jobs[wk.job].cancel_requested = 1
             THEN [wk EXCEPT !.pc = "cancel_pending"]
             ELSE [wk EXCEPT !.pc = "ujs_counts", !.ret = "post"]
    /\ api' = ApiSeen
    /\ UNCHANGED <<jobs, prompts, paused, inflight, posted>> /\ WkOnly

(* worker.py:219 -> db.py:375-381 *)
WCancelPending ==
    /\ wk.pc = "cancel_pending"
    /\ prompts' = CancelPendingUpdate(prompts, wk.job)
    /\ wk' = [wk EXCEPT !.pc = "ujs_counts", !.ret = "post"]
    /\ api' = ApiSeen
    /\ UNCHANGED <<jobs, paused, inflight, posted>> /\ WkOnly

(* update_job_status called from the worker (worker.py:144, 148, 221, 246-293, 318-374) *)
WUjsCounts ==
    /\ wk.pc = "ujs_counts"
    /\ wk' = UjsCounts(wk)
    /\ api' = ApiSeen
    /\ UNCHANGED <<jobs, prompts, paused, inflight, posted>> /\ WkOnly

WUjsRow ==
    /\ wk.pc = "ujs_row"
    /\ wk' = UjsRow(wk)
    /\ api' = ApiSeen
    /\ UNCHANGED <<jobs, prompts, paused, inflight, posted>> /\ WkOnly

WUjsWrite ==
    /\ wk.pc = "ujs_write"
    /\ jobs' = JobStatusWrite(jobs, wk.job, wk.status, wk.started)
    /\ wk' = [UjsWrite(wk) EXCEPT !.status = IF wk.ret = "post" THEN @ ELSE NULL]
    /\ api' = ApiSeen
    /\ UNCHANGED <<prompts, paused, inflight, posted>> /\ WkOnly

(* worker.py:221-223: the returned status; move-processed touches no table *)
WPost ==
    /\ wk.pc = "post"
    /\ wk' = WkLoop
    /\ api' = ApiSeen
    /\ UNCHANGED <<jobs, prompts, paused, inflight, posted>> /\ WkOnly

----------------------------------------------------------------------------
(* The tables persist across process runs (db.py:17-23).  The process starts
   (app.py:140-148) either on an empty store or on the store a killed process
   left behind: one job whose single prompt was marked running (worker.py:147),
   before or after its upstream id was recorded (worker.py:154). *)
LeftBehind(uid) ==
    /\ jobs = <<[NewJob(0) EXCEPT !.status = "running", !.started_at = "ts"]>>
    /\ prompts = <<[NewPrompt(1) EXCEPT !.status = "running", !.started_at = "ts",
                                        !.prompt_id = uid]>>
    /\ spec_n = <<1>>

(* app.py:140-148: on_startup built the Worker (worker.py:40-43) and called
   start(), which found no thread, created one and started it *)
LifeInit ==
    /\ w_thread = 1 /\ threads = <<"begin">>
    /\ w_running = FALSE /\ stop_event = FALSE
    /\ req = [r \in 1..NumReq |-> "idle"]
    /\ serving = TRUE

EmptyStore ==
    /\ jobs = <<>> /\ prompts = <<>> /\ spec_n = <<>>

(* the queue and life-cycle specifications leave the input files out *)
NoFiles ==
    /\ pfile = <<>> /\ jmove = <<>> /\ moved = {}
    /\ fn = [op |-> "none"]

Init ==
    /\ \/ EmptyStore
       \/ \E uid \in {NULL, "uid"} : LeftBehind(uid)
    /\ paused = FALSE
    /\ wk = WkInit /\ api = ApiIdle
    /\ ops = 0 /\ answers = AnswerClasses
    /\ cancel_ret = {} /\ inflight = {}
    /\ posted = {i \in DOMAIN prompts : prompts[i].status = "running"}
    /\ LifeInit /\ NoFiles

Next ==
    \/ ACreateCall \/ ACreateJob \/ ACreatePrompt
    \/ ACancelCall \/ ACancelExists \/ ACancelUpd \/ ACancelFlag \/ ACancelCount
    \/ ARetryCall \/ ARetryUpd \/ ARetryJob
    \/ AUjsCounts \/ AUjsRow \/ AUjsWrite \/ AGetJob \/ AReturn
    \/ APause \/ AResume
    \/ WRecoverList \/ WRecoverRow \/ WLoop \/ WReconcileList \/ WReconcileRow
    \/ WNextPaused \/ WNextSelect \/ WCancelCheck \/ WCancelSkip \/ WMarkRunning
    \/ WSubmit \/ WPoll \/ WCancelAfter \/ WCancelPending
    \/ WUjsCounts \/ WUjsRow \/ WUjsWrite \/ WPost

Spec == Init /\ [][Next]_vars

----------------------------------------------------------------------------
(* Life cycle of the worker loop thread: Worker.start / Worker.stop, the loop
   thread's own entry and exit, and the requests that reach start() through
   _ensure_worker_running.  The endpoints are plain functions, so the server
   runs each request on a pool thread and requests overlap. *)

AliveStates == {"begin", "recover", "loop"}

(* worker.py:53: self._thread and self._thread.is_alive() *)
IsAlive(t) == t # 0 /\ threads[t] \in AliveStates

LifeOnly == UNCHANGED StoreVars /\ UNCHANGED FileVars /\ UNCHANGED fn

(* app.py:1082-1084 (also app.py:885): a request that calls _ensure_worker_running *)
EHealth(r) ==
    /\ serving /\ req[r] = "idle"
    /\ req' = [req EXCEPT ![r] = "ensure"]
    /\ UNCHANGED <<paused, w_thread, w_running, stop_event, threads, serving>> /\ LifeOnly

(* app.py:1066-1069: resume clears the pause flag, then _ensure_worker_running *)
EResume(r) ==
    /\ serving /\ req[r] = "idle"
    /\ paused' = FALSE
    /\ req' = [req EXCEPT ![r] = "ensure"]
    /\ UNCHANGED <<w_thread, w_running, stop_event, threads, serving>> /\ LifeOnly

(* app.py:1060-1063 *)
EPause(r) ==
    /\ serving /\ req[r] = "idle"
    /\ paused' = TRUE
    /\ UNCHANGED <<req, w_thread, w_running, stop_event, threads, serving>> /\ LifeOnly

(* app.py:822-825: the worker exists; return when the queue is paused *)
EnsurePaused(r) ==
    /\ req[r] = "ensure"
    /\ req' = [req EXCEPT ![r] = IF paused THEN "idle" ELSE "ens_running"]
    /\ UNCHANGED <<paused, w_thread, w_running, stop_event, threads, serving>> /\ LifeOnly

(* app.py:826-828 with worker.py:47-50: return when the running flag is set *)
EnsureRunning(r) ==
    /\ req[r] = "ens_running"
    /\ req' = [req EXCEPT ![r] = IF w_running THEN "idle" ELSE "start"]
    /\ UNCHANGED <<paused, w_thread, w_running, stop_event, threads, serving>> /\ LifeOnly

(* worker.py:53-54 *)
StartAlive(r) ==
    /\ req[r] = "start"
    /\ req' = [req EXCEPT ![r] = IF IsAlive(w_thread) THEN "idle" ELSE "clear"]
    /\ UNCHANGED <<paused, w_thread, w_running, stop_event, threads, serving>> /\ LifeOnly

(* worker.py:55 *)
StartClear(r) ==
    /\ req[r] = "clear"
    /\ stop_event' = FALSE
    /\ req' = [req EXCEPT ![r] = "create"]
    /\ UNCHANGED <<paused, w_thread, w_running, threads, serving>> /\ LifeOnly

(* worker.py:56: a new Thread object, not started, stored in self._thread *)
StartCreate(r) ==
    /\ req[r] = "create"
    /\ Len(threads) < MaxThreads
    /\ threads' = Append(threads, "new")
    /\ w_thread' = Len(threads) + 1
    /\ req' = [req EXCEPT ![r] = "tstart"]
    /\ UNCHANGED <<paused, w_running, stop_event, serving>> /\ LifeOnly

(* worker.py:57: self._thread.start() on whatever self._thread holds now; a
   thread that was started already raises RuntimeError in the request *)
StartThread(r) ==
    /\ req[r] = "tstart"
    /\ threads' = IF threads[w_thread] = "new"
                  THEN [threads EXCEPT ![w_thread] = "begin"]
                  ELSE threads
    /\ req' = [req EXCEPT ![r] = "idle"]
    /\ UNCHANGED <<paused, w_thread, w_running, stop_event, serving>> /\ LifeOnly

(* worker.py:103-104 *)
TSetRunning(t) ==
    /\ t \in DOMAIN threads
    /\ threads[t] = "begin"
    /\ w_running' = TRUE
    /\ threads' = [threads EXCEPT ![t] = "recover"]
    /\ UNCHANGED <<paused, w_thread, stop_event, req, serving>> /\ LifeOnly

(* worker.py:106: startup recovery, outside the try; an exception of the store
   ends the thread without passing the finally *)
TRecover(t) ==
    /\ t \in DOMAIN threads
    /\ threads[t] = "recover"
    /\ \E raised \in BOOLEAN :
          threads' = [threads EXCEPT ![t] = IF raised THEN "dead" ELSE "loop"]
    /\ UNCHANGED <<paused, w_thread, w_running, stop_event, req, serving>> /\ LifeOnly

(* worker.py:108 and 225-227: the loop sees the stop event and leaves *)
TStopped(t) ==
    /\ t \in DOMAIN threads
    /\ threads[t] = "loop" /\ stop_event
    /\ threads' = [threads EXCEPT ![t] = "dead"]
    /\ w_running' = FALSE
    /\ UNCHANGED <<paused, w_thread, stop_event, req, serving>> /\ LifeOnly

(* worker.py:109-223 and 225-227: a statement of the loop body that no except
   clause covers raises (is_paused at 109, next_pending_prompt at 121,
   _write_log at 213, the UPDATE at 214); the finally clears the flag *)
TRaise(t) ==
    /\ t \in DOMAIN threads
    /\ threads[t] = "loop"
    /\ threads' = [threads EXCEPT ![t] = "dead"]
    /\ w_running' = FALSE
    /\ UNCHANGED <<paused, w_thread, stop_event, req, serving>> /\ LifeOnly

(* app.py:155-158 with worker.py:59-60: stop() sets the stop event *)
OnShutdown ==
    /\ serving
    /\ serving' = FALSE
    /\ stop_event' = TRUE
    /\ UNCHANGED <<paused, w_thread, w_running, threads, req>> /\ LifeOnly

InitLife ==
    /\ EmptyStore
    /\ paused = FALSE
    /\ wk = WkInit /\ api = ApiIdle
    /\ ops = 0 /\ answers = AnswerClasses
    /\ cancel_ret = {} /\ inflight = {} /\ posted = {}
    /\ LifeInit /\ NoFiles

NextLife ==
    \/ \E r \in 1..NumReq :
          \/ EHealth(r) \/ EResume(r) \/ EPause(r)
          \/ EnsurePaused(r) \/ EnsureRunning(r)
          \/ StartAlive(r) \/ StartClear(r) \/ StartCreate(r) \/ StartThread(r)
    \/ \E t \in 1..MaxThreads :
          \/ TSetRunning(t) \/ TRecover(t) \/ TStopped(t) \/ TRaise(t)
    \/ OnShutdown

SpecLife == InitLife /\ [][NextLife]_vars

----------------------------------------------------------------------------
(* Cancel-after-current under fair scheduling.  The store holds one job of two
   prompts, the first submitted and being polled by the worker, the second
   pending (a state Spec reaches); requests cancel jobs while the worker
   runs.  Both threads keep running (weak fairness on each thread's steps);
   the arrival of a request is not forced. *)

RunningJob ==
    /\ jobs = <<[NewJob(0) EXCEPT !.status = "running", !.started_at = "ts"]>>
    /\ prompts = <<[NewPrompt(1) EXCEPT !.status = "running", !.started_at = "ts",
                                        !.prompt_id = "uid"],
                   NewPrompt(1)>>
    /\ spec_n = <<2>>
    /\ wk = [WkInit EXCEPT !.pc = "poll", !.ret = "submit", !.row = 1, !.job = 1]
    /\ inflight = {1} /\ posted = {1}

InitCancel ==
    /\ RunningJob
    /\ paused = FALSE /\ api = ApiIdle
    /\ ops = 1 /\ answers = AnswerClasses
    /\ cancel_ret = {}
    /\ LifeInit /\ NoFiles

CancelThread ==
    \/ ACancelExists \/ ACancelUpd \/ ACancelFlag \/ ACancelCount
    \/ AUjsCounts \/ AUjsRow \/ AUjsWrite \/ AGetJob \/ AReturn

WorkerThread ==
    \/ WLoop \/ WReconcileList \/ WNextPaused \/ WNextSelect
    \/ WCancelCheck \/ WCancelSkip \/ WMarkRunning
    \/ WSubmit \/ WPoll \/ WCancelAfter \/ WCancelPending
    \/ WUjsCounts \/ WUjsRow \/ WUjsWrite \/ WPost

NextCancel == ACancelCall \/ CancelThread \/ WorkerThread

SpecCancel ==
    InitCancel /\ [][NextCancel]_vars /\ WF_vars(CancelThread) /\ WF_vars(WorkerThread)

----------------------------------------------------------------------------
(* Input files and the move-processed post-action.  Each action here is one
   whole store call or one whole stretch of the worker loop, run alone: the
   file moves depend on what the loop does in sequence, not on interleaving. *)

Files == {"a", "b"}

(* db.py:210-248, the whole of update_job_status on job j *)
UpdateJobStatus(ps, js, j) ==
    LET status == DeriveStatus(JobPromptCounts(ps, j), js[j].cancel_requested)
    IN  JobStatusWrite(js, j, status, StartedVal(js[j].started_at, status))

(* worker.py:71-100: the files _move_processed(j) moves, read off the store
   as it is after update_job_status: none unless the job has move_processed
   set and status succeeded, else the input_file of each of its prompts *)
MoveProcessed(ps, js, j) ==
    IF ~jmove[j] \/ js[j].status # "succeeded"
    THEN {}
    ELSE {pfile[i] : i \in PromptsOf(ps, j)}

MoveOnly ==
    UNCHANGED <<paused, wk, api, ops, answers, spec_n, cancel_ret, inflight, posted, fn>>
    /\ UNCHANGED LifeVars

(* app.py:873-929 and db.py:116-151: a job over input files that exist *)
MCreateJob ==
    /\ Len(jobs) < MaxJobs
    /\ \E n \in 1..MaxPrompts, mv \in BOOLEAN :
       \E fs \in [1..n -> Files \ moved] :
          /\ jobs' = Append(jobs, NewJob(0))
          /\ jmove' = Append(jmove, mv)
          /\ prompts' = prompts \o [k \in 1..n |-> NewPrompt(Len(jobs) + 1)]
          /\ pfile' = pfile \o fs
    /\ UNCHANGED moved /\ MoveOnly

(* worker.py:121-148: the loop takes the next pending prompt and marks it running *)
MMarkRunning ==
    /\ ListRunningPrompts(prompts) = <<>>
    /\ LET r == SelectNextPending(prompts, jobs)
       IN  /\ r # 0
           /\ LET ps2 == UpdatePromptStatus(prompts, r, "running", [started_at |-> "ts"])
              IN  /\ prompts' = ps2
                  /\ jobs' = UpdateJobStatus(ps2, jobs, prompts[r].job_id)
    /\ UNCHANGED <<pfile, jmove, moved>> /\ MoveOnly

(* worker.py:150-223: the prompt ends, pending prompts of a job under cancel
   are canceled, the job status is recomputed and, if it is succeeded,
   _move_processed runs *)
MFinish ==
    /\ ListRunningPrompts(prompts) # <<>>
    /\ LET r == Head(ListRunningPrompts(prompts))
           j == prompts[r].job_id
       IN  \E ok \in BOOLEAN :
             LET ps0 == UpdatePromptStatus(prompts, r, "running", [prompt_id |-> "uid"])
                 ps1 == IF ok
                        THEN UpdatePromptStatus(ps0, r, "succeeded",
                                [finished_at |-> "ts", exit_status |-> "success",
                                 output_paths |-> "paths"])
                        ELSE UpdatePromptStatus(ps0, r, "failed", FailFields("failed"))
                 ps2 == IF jobs[j].cancel_requested = 1 THEN CancelPendingUpdate(ps1, j) ELSE ps1
                 js2 == UpdateJobStatus(ps2, jobs, j)
             IN  /\ prompts' = ps2
                 /\ jobs' = js2
                 /\ moved' = moved \cup MoveProcessed(ps2, js2, j)
    /\ UNCHANGED <<pfile, jmove>> /\ MoveOnly

(* db.py:317-348, the whole of cancel_job(j) *)
MCancelJob ==
    /\ \E j \in DOMAIN jobs :
          LET ps2 == CancelPendingUpdate(prompts, j)
          IN  /\ jobs[j].cancel_requested = 0
              /\ prompts' = ps2
              /\ jobs' = UpdateJobStatus(ps2, SetCancelRequested(jobs, j), j)
    /\ UNCHANGED <<pfile, jmove, moved>> /\ MoveOnly

InitMove ==
    /\ EmptyStore /\ NoFiles
    /\ paused = FALSE
    /\ wk = WkInit /\ api = ApiIdle
    /\ ops = 0 /\ answers = AnswerClasses
    /\ cancel_ret = {} /\ inflight = {} /\ posted = {}
    /\ LifeInit

NextMove == MCreateJob \/ MMarkRunning \/ MFinish \/ MCancelJob

SpecMove == InitMove /\ [][NextMove]_vars

----------------------------------------------------------------------------
(* The functions of the store, each called once on a store drawn from a
   bounded set: the call and what it returned are kept in fn. *)

(* the threads at rest, nothing else in progress *)
AtRest ==
    /\ wk = WkLoop /\ api = ApiIdle
    /\ ops = 0 /\ answers = AnswerClasses
    /\ spec_n = <<>> /\ cancel_ret = {} /\ inflight = {} /\ posted = {}
    /\ LifeInit

FnOnly ==
    UNCHANGED <<paused, wk, api, ops, answers, spec_n, cancel_ret, inflight, posted>>
    /\ UNCHANGED LifeVars /\ UNCHANGED FileVars

(* db.py:47-60: a prompt row of job j in the given status *)
PromptIn(j, status) == [NewPrompt(j) EXCEPT !.status = status]

(* the sequences over S of length at most n *)
SeqsUpTo(S, n) == UNION {[1..k -> S] : k \in 0..n}

(* one job, fresh or started, with either value of cancel_requested, over any
   children *)
InitStatus ==
    /\ \E c \in {0, 1}, started \in BOOLEAN :
          jobs = <<IF started
                   THEN [NewJob(0) EXCEPT !.cancel_requested = c, !.status = "running",
                                          !.started_at = "ts"]
                   ELSE [NewJob(0) EXCEPT !.cancel_requested = c]>>
    /\ \E sts \in SeqsUpTo(Statuses, MaxChildren) :
          prompts = [k \in DOMAIN sts |-> PromptIn(1, sts[k])]
    /\ paused = FALSE
    /\ AtRest /\ NoFiles

(* db.py:210-248: update_job_status(1), the status stored and returned *)
FnUpdateJobStatus ==
    /\ fn.op = "none"
    /\ jobs' = UpdateJobStatus(prompts, jobs, 1)
    /\ fn' = [op |-> "update_job_status", arg |-> 1, res |-> jobs'[1].status]
    /\ UNCHANGED prompts /\ FnOnly

NextStatus == FnUpdateJobStatus

SpecStatus == InitStatus /\ [][NextStatus]_vars

(* two jobs of any priority, status and cancel_requested, up to MaxQueued
   prompts spread over them, pending or not, the queue paused or not *)
InitNext ==
    /\ jobs \in [1..2 -> {[NewJob(pr) EXCEPT !.status = st, !.cancel_requested = c] :
                             pr \in 0..MaxPriority, st \in {"pending", "running", "failed"},
                             c \in {0, 1}}]
    /\ \E ps \in SeqsUpTo({PromptIn(j, st) : j \in 1..2, st \in {"pending", "succeeded"}},
                          MaxQueued) :
          prompts = ps
    /\ paused \in BOOLEAN
    /\ AtRest /\ NoFiles

(* db.py:153-174: next_pending_prompt(job_id), job_id = 0 for None *)
FnNextPendingPrompt ==
    /\ fn.op = "none"
    /\ \E job_id \in 0..2 :
          fn' = [op |-> "next_pending_prompt", arg |-> job_id,
                 res |-> NextPendingPrompt(prompts, jobs, paused, job_id)]
    /\ UNCHANGED <<jobs, prompts>> /\ FnOnly

NextNext == FnNextPendingPrompt

SpecNext == InitNext /\ [][NextNext]_vars

(* variant of HasActivePromptsForInput: the job's status is not looked at *)
HasActiveAnyJobStatus(ps, js, pf, f, exclude) ==
    \E i \in DOMAIN ps :
        /\ pf[i] = f
        /\ ps[i].status \in {"pending", "running"}
        /\ (exclude = 0 \/ ps[i].job_id # exclude)

(* db.py:444-459: has_active_prompts_for_input(f, exclude_job_id), exclude = 0
   for None *)
HasActivePromptsForInput(ps, js, pf, f, exclude) ==
    \E i \in DOMAIN ps :
        /\ pf[i] = f
        /\ ps[i].status \in {"pending", "running"}
        /\ js[ps[i].job_id].status \in {"pending", "running"}
        /\ (exclude = 0 \/ ps[i].job_id # exclude)

(* two jobs of any status, up to MaxQueued prompts spread over them, each on
   one of the input files *)
InitActive ==
    /\ jobs \in [1..2 -> {[NewJob(0) EXCEPT !.status = st] :
                             st \in {"pending", "running", "succeeded"}}]
    /\ \E ps \in SeqsUpTo({PromptIn(j, st) : j \in 1..2,
                                              st \in {"pending", "running", "failed"}},
                          MaxQueued) :
          /\ prompts = ps
          /\ pfile \in [DOMAIN ps -> Files]
    /\ jmove = <<FALSE, FALSE>> /\ moved = {}
    /\ fn = [op |-> "none"]
    /\ paused = FALSE
    /\ AtRest

(* db.py:444-459 *)
FnHasActivePrompts ==
    /\ fn.op = "none"
    /\ \E f \in Files, exclude \in 0..2 :
          fn' = [op |-> "has_active_prompts_for_input",
                 arg |-> [f |-> f, exclude |-> exclude],
                 res |-> HasActivePromptsForInput(prompts, jobs, pfile, f, exclude)]
    /\ UNCHANGED <<jobs, prompts>> /\ FnOnly

NextActive == FnHasActivePrompts

SpecActive == InitActive /\ [][NextActive]_vars

----------------------------------------------------------------------------
(* The parameter resolver, prompt_builder.py:26-77.

   A value, handed in by the caller or returned in the resolved map, is a
   Python value: None, a bool, an int, a float or a str.  Numbers are kept in
   tenths (3 is 30, 5.9 is 59), so that a float with a fraction is a value of
   the model; a bool has the numeric value Python gives it (True is 1); the
   float nan is the float whose str field is "nan". *)

RawNone == [kind |-> "none", num |-> 0, str |-> ""]
RawBool(b) == [kind |-> "bool", num |-> IF b THEN 10 ELSE 0, str |-> ""]
RawInt(tenths) == [kind |-> "int", num |-> tenths, str |-> ""]
RawFloat(tenths) == [kind |-> "float", num |-> tenths, str |-> ""]
RawNaN == [kind |-> "float", num |-> 0, str |-> "nan"]
RawStr(s) == [kind |-> "str", num |-> 0, str |-> s]

(* the strings of the model *)
Strings == {"3", "7", "YES", "off", "x", "0.5", " On ", "nan"}

(* str.strip().lower(), prompt_builder.py:33 *)
StripLower ==
    [s \in Strings |-> CASE s = "YES" -> "yes"
                         [] s = " On " -> "on"
                         [] OTHER -> s]

(* int(str): the strings Python's int() accepts, with their value; a string
   with a fraction or with letters raises *)
IntLiterals == [s \in {"3", "7"} |-> IF s = "3" THEN RawInt(30) ELSE RawInt(70)]

(* float(str): the strings Python's float() accepts, with their value *)
FloatLiterals ==
    [s \in {"3", "7", "0.5", "nan"} |->
        CASE s = "3" -> RawFloat(30)
          [] s = "7" -> RawFloat(70)
          [] s = "0.5" -> RawFloat(5)
          [] OTHER -> RawNaN]

(* int(float): truncation toward zero *)
Truncate(tenths) ==
    IF tenths >= 0 THEN (tenths \div 10) * 10 ELSE 0 - (((0 - tenths) \div 10) * 10)

(* int(value), prompt_builder.py:43: None raises, a string is parsed, a float
   is truncated (int(nan) raises) *)
PyInt(value) ==
    CASE value.kind \in {"int", "bool"} -> [ok |-> TRUE, val |-> RawInt(value.num)]
      [] value.kind = "float" /\ value # RawNaN ->
            [ok |-> TRUE, val |-> RawInt(Truncate(value.num))]
      [] value.kind = "str" /\ value.str \in DOMAIN IntLiterals ->
            [ok |-> TRUE, val |-> IntLiterals[value.str]]
      [] OTHER -> [ok |-> FALSE]

(* float(value), prompt_builder.py:53: a bool is a number here *)
PyFloat(value) ==
    CASE value.kind \in {"int", "bool"} -> [ok |-> TRUE, val |-> RawFloat(value.num)]
      [] value.kind = "float" -> [ok |-> TRUE, val |-> value]
      [] value.kind = "str" /\ value.str \in DOMAIN FloatLiterals ->
            [ok |-> TRUE, val |-> FloatLiterals[value.str]]
      [] OTHER -> [ok |-> FALSE]

(* str(value), prompt_builder.py:28, on the values of the model *)
PyStr(value) ==
    CASE value.kind = "str" -> value.str
      [] value.kind = "bool" -> IF value.num = 10 THEN "True" ELSE "False"
      [] value.kind = "none" -> "None"
      [] value.kind = "int" /\ value.num = 30 -> "3"
      [] value.kind = "float" /\ value.num = 59 -> "5.9"

(* Python's out < limit and out > limit: every comparison with nan is false *)
PyLess(x, y) == x # RawNaN /\ y # RawNaN /\ x.num < y.num

(* prompt_builder.py:46-49 and 56-59: min and max are enforced when set *)
WithinLimits(param, out) ==
    /\ ~(param.min # RawNone /\ PyLess(out, param.min))
    /\ ~(param.max # RawNone /\ PyLess(param.max, out))

(* prompt_builder.py:26-61, _coerce_param; ok = FALSE is the ValueError *)
CoerceParam(param, value) ==
    CASE param.type = "text" ->
            [ok |-> TRUE,
             val |-> IF value = RawNone THEN RawStr("") ELSE RawStr(PyStr(value))]
      [] param.type = "bool" ->
            IF value.kind = "bool" THEN [ok |-> TRUE, val |-> value]
            ELSE IF value.kind = "str"
                    /\ StripLower[value.str] \in {"1", "true", "yes", "on"}
                 THEN [ok |-> TRUE, val |-> RawBool(TRUE)]
            ELSE IF value.kind = "str"
                    /\ StripLower[value.str] \in {"0", "false", "no", "off"}
                 THEN [ok |-> TRUE, val |-> RawBool(FALSE)]
            ELSE [ok |-> FALSE]
      [] param.type = "int" ->
            IF value.kind = "bool" THEN [ok |-> FALSE]
            ELSE LET out == PyInt(value)
                 IN  IF out.ok /\ WithinLimits(param, out.val)
                     THEN out ELSE [ok |-> FALSE]
      [] param.type = "float" ->
            LET out == PyFloat(value)
            IN  IF out.ok /\ WithinLimits(param, out.val)
                THEN out ELSE [ok |-> FALSE]
      [] OTHER -> [ok |-> FALSE]

(* defs.py:25-34: the definition's parameters, a numeric one of the given
   type with min 0 and max 5, a bool and a text *)
Parameters(atype) ==
    [a |-> [type |-> atype, default |-> RawStr("3"),
            min |-> RawInt(0), max |-> RawInt(50)],
     b |-> [type |-> "bool", default |-> RawBool(FALSE),
            min |-> RawNone, max |-> RawNone],
     c |-> [type |-> "text", default |-> RawNone,
            min |-> RawNone, max |-> RawNone]]

(* prompt_builder.py:65-77, resolve_params; ok = FALSE is the ValueError *)
ResolveParams(parameters, params) ==
    LET unknown == DOMAIN params \ DOMAIN parameters
        raw(name) == IF name \in DOMAIN params THEN params[name]
                     ELSE parameters[name].default
    IN  IF unknown # {} THEN [ok |-> FALSE]
        ELSE IF \E name \in DOMAIN parameters :
                   ~CoerceParam(parameters[name], raw(name)).ok
        THEN [ok |-> FALSE]
        ELSE [ok |-> TRUE,
              map |-> [name \in DOMAIN parameters |->
                          CoerceParam(parameters[name], raw(name)).val]]

(* the values a caller may give for each name; "z" is not declared *)
RawNumbers ==
    {RawInt(30), RawInt(70), RawInt(0 - 10), RawInt(0), RawInt(50),
     RawFloat(59), RawFloat(5), RawFloat(0 - 5)}

RawFor ==
    [a |-> RawNumbers \cup {RawNone, RawBool(TRUE), RawBool(FALSE)}
             \cup {RawStr(s) : s \in {"3", "7", "x", "0.5", "YES", "nan"}},
     b |-> {RawNone, RawBool(TRUE), RawInt(30)}
             \cup {RawStr(s) : s \in {"YES", "off", " On ", "x"}},
     c |-> {RawNone, RawBool(TRUE), RawInt(30), RawFloat(59), RawStr("x")},
     z |-> {RawInt(30)}]

UserParams ==
    UNION {{p \in [D -> UNION {RawFor[n] : n \in DOMAIN RawFor}] :
               \A n \in D : p[n] \in RawFor[n]} : D \in SUBSET DOMAIN RawFor}

InitResolve ==
    /\ fn \in {[op |-> "call", arg |-> [atype |-> t, params |-> p]] :
                  t \in {"int", "float"}, p \in UserParams}
    /\ EmptyStore /\ paused = FALSE
    /\ pfile = <<>> /\ jmove = <<>> /\ moved = {}
    /\ AtRest

FnResolveParams ==
    /\ fn.op = "call"
    /\ fn' = [op |-> "resolve_params", arg |-> fn.arg,
              res |-> ResolveParams(Parameters(fn.arg.atype), fn.arg.params)]
    /\ UNCHANGED <<jobs, prompts>> /\ FnOnly

NextResolve == FnResolveParams

SpecResolve == InitResolve /\ [][NextResolve]_vars

----------------------------------------------------------------------------
(* The prompt materializer, prompt_builder.py:81-383.

   A prompt graph is a function from node ids to nodes.  A node that is a dict
   is a record that may have the field "inputs", a function from field names
   to values; a node that is not a dict is a plain value.  A str that the code
   composes with an f-string is kept as the sequence of its characters, so
   that its ending can be read. *)

RawPath(chars) == [kind |-> "path", chars |-> chars]
RawRef(src_id) == [kind |-> "list", num |-> 0, str |-> src_id]

(* dict.get(key, default) and dict[key] = value *)
Get(d, key, default) == IF key \in DOMAIN d THEN d[key] ELSE default

Put(d, key, value) == [k \in DOMAIN d \cup {key} |-> IF k = key THEN value ELSE d[k]]

(* isinstance(node, dict) *)
IsDictNode(node) == "kind" \notin DOMAIN node

(* node.setdefault("inputs", {}) *)
NodeInputs(node) == Get(node, "inputs", <<>>)

(* isinstance(v, (int, float)) and not isinstance(v, bool), on inputs.get(f) *)
IsNumeric(inputs, f) == f \in DOMAIN inputs /\ inputs[f].kind \in {"int", "float"}

FirstIndex(S) == CHOOSE i \in S : \A j \in S : i <= j

(* prompt_builder.py:81-97, _set_candidate_field *)
SetCandidateField(node_inputs, preferred, candidates, value) ==
    IF preferred # NULL /\ preferred # "" THEN Put(node_inputs, preferred, value)
    ELSE IF candidates # <<>>
    THEN LET hits == {i \in DOMAIN candidates : candidates[i] \in DOMAIN node_inputs}
         IN  IF hits # {} THEN Put(node_inputs, candidates[FirstIndex(hits)], value)
             ELSE Put(node_inputs, candidates[1], value)
    ELSE node_inputs

(* the same with prompt.setdefault(nid, {}) in place of prompt.get(nid) *)
SetNodeFieldCreating(prompt, nid, preferred, candidates, value) ==
    LET node == Get(prompt, nid, <<>>)
    IN  IF ~IsDictNode(node) THEN prompt
        ELSE Put(prompt, nid,
                 Put(node, "inputs",
                     SetCandidateField(NodeInputs(node), preferred, candidates, value)))

(* the body of every "for nid in nodes" loop, prompt_builder.py:192-197,
   207-212, 218-222, 240-245, 273-278, 286-291: a node id the prompt does not
   have, or a node that is not a dict, is skipped *)
SetNodeField(prompt, nid, preferred, candidates, value) ==
    IF nid \notin DOMAIN prompt \/ ~IsDictNode(prompt[nid]) THEN prompt
    ELSE [prompt EXCEPT ![nid] =
             Put(@, "inputs",
                 SetCandidateField(NodeInputs(@), preferred, candidates, value))]

RECURSIVE SetNodes(_, _, _, _, _)
SetNodes(prompt, nodes, preferred, candidates, value) ==
    IF nodes = <<>> THEN prompt
    ELSE SetNodes(SetNodeField(prompt, Head(nodes), preferred, candidates, value),
                  Tail(nodes), preferred, candidates, value)

(* prompt_builder.py:101-112, _normalize_context_schedule_values *)
NormalizeContextScheduleValues(prompt) ==
    [nid \in DOMAIN prompt |->
        LET node == prompt[nid]
        IN  IF /\ IsDictNode(node)
               /\ Get(node, "class_type", RawNone) = RawStr("WanContextWindowsManual")
               /\ "inputs" \in DOMAIN node
               /\ Get(node.inputs, "context_schedule", RawNone) = RawStr("uniform_standard")
            THEN [node EXCEPT !.inputs.context_schedule = RawStr("standard_uniform")]
            ELSE node]

(* prompt_builder.py:115-128, _flip_orientation *)
FlipOrientation(prompt) ==
    [nid \in DOMAIN prompt |->
        LET node == prompt[nid]
        IN  IF /\ IsDictNode(node) /\ "inputs" \in DOMAIN node
               /\ IsNumeric(node.inputs, "width") /\ IsNumeric(node.inputs, "height")
            THEN [node EXCEPT !.inputs.width = node.inputs.height,
                              !.inputs.height = node.inputs.width]
            ELSE node]

(* prompt_builder.py:131-145, _apply_resolution *)
ApplyResolution(prompt, width, height) ==
    [nid \in DOMAIN prompt |->
        LET node == prompt[nid]
        IN  IF /\ IsDictNode(node) /\ "inputs" \in DOMAIN node
               /\ IsNumeric(node.inputs, "width") /\ IsNumeric(node.inputs, "height")
            THEN [node EXCEPT !.inputs.width = RawInt(width),
                              !.inputs.height = RawInt(height)]
            ELSE node]

(* prompt_builder.py:161-181, _set_seed; seed is the random number drawn at
   line 169, seed_used is empty for None *)
SetSeedNode(node, binding, seed) ==
    LET inputs == NodeInputs(node)
    IN  Put(node, "inputs",
            IF binding.fields # <<>>
            THEN [f \in DOMAIN inputs |->
                     IF \E i \in DOMAIN binding.fields : binding.fields[i] = f
                     THEN RawInt(seed) ELSE inputs[f]]
            ELSE IF binding.field # NULL THEN Put(inputs, binding.field, RawInt(seed))
            ELSE inputs)

SetSeed(prompt, workflow_def, randomize, seed) ==
    IF ~randomize \/ "seed" \notin DOMAIN workflow_def.file_bindings
    THEN [prompt |-> prompt, seed_used |-> <<>>]
    ELSE LET binding == workflow_def.file_bindings["seed"]
             nodes == {binding.nodes[i] : i \in DOMAIN binding.nodes}
         IN  [prompt |-> [nid \in DOMAIN prompt |->
                             IF nid \in nodes /\ IsDictNode(prompt[nid])
                             THEN SetSeedNode(prompt[nid], binding, seed)
                             ELSE prompt[nid]],
              seed_used |-> <<seed>>]

(* str.rstrip("/") *)
RECURSIVE RStripSlash(_)
RStripSlash(chars) ==
    IF chars # <<>> /\ chars[Len(chars)] = "/"
    THEN RStripSlash(SubSeq(chars, 1, Len(chars) - 1)) ELSE chars

(* prompt_builder.py:185-198, _set_output_prefix; out is the returned str *)
SetOutputPrefix(prompt, workflow_def, output_prefix, stem) ==
    IF "output_prefix" \notin DOMAIN workflow_def.file_bindings
    THEN [prompt |-> prompt, out |-> stem]
    ELSE LET binding == workflow_def.file_bindings["output_prefix"]
             base == RStripSlash(output_prefix)
             final == IF base # <<>> THEN base \o <<"/">> \o stem ELSE stem
         IN  [prompt |-> SetNodes(prompt, binding.nodes, binding.field,
                                  binding.fields, RawPath(final)),
              out |-> final]

(* prompt_builder.py:202-212, _apply_input_binding *)
RECURSIVE ApplyBindings(_, _, _, _)
ApplyBindings(prompt, workflow_def, names, relative_input_path) ==
    IF names = <<>> THEN prompt
    ELSE LET rest == Tail(names)
         IN  IF Head(names) \notin DOMAIN workflow_def.file_bindings
             THEN ApplyBindings(prompt, workflow_def, rest, relative_input_path)
             ELSE LET binding == workflow_def.file_bindings[Head(names)]
                  IN  ApplyBindings(SetNodes(prompt, binding.nodes, binding.field,
                                             binding.fields, RawStr(relative_input_path)),
                                    workflow_def, rest, relative_input_path)

ApplyInputBinding(prompt, workflow_def, relative_input_path) ==
    ApplyBindings(prompt, workflow_def, <<"load_image", "load_video", "input_file">>,
                  relative_input_path)

(* prompt_builder.py:216-222, _apply_switch_states *)
RECURSIVE ApplySwitches(_, _)
ApplySwitches(prompt, switches) ==
    IF switches = <<>> THEN prompt
    ELSE ApplySwitches(SetNodeField(prompt, Head(switches).node_id,
                                    Head(switches).field, <<>>, Head(switches).value),
                       Tail(switches))

ApplySwitchStates(prompt, workflow_def) == ApplySwitches(prompt, workflow_def.switch_states)

(* str.strip() on the names of the model *)
Strip == [s \in {"", " ", "h", "l", "h2", "l2"} |-> IF s = " " THEN "" ELSE s]

(* bool(value) of a resolved value *)
Truthy(value) ==
    CASE value.kind = "bool" -> value.num # 0
      [] value.kind = "str" -> value.str # ""
      [] value.kind = "none" -> FALSE
      [] OTHER -> value.num # 0

(* pname.startswith("extra_lora") and pname.endswith("_name") *)
ExtraLoraNames ==
    {"extra_lora_high_name", "extra_lora_low_name",
     "extra_lora2_high_name", "extra_lora2_low_name",
     "extra_lora3_high_name", "extra_lora3_low_name"}

(* prompt_builder.py:248, 264-268: the keys of slot idx *)
KeyBase == <<"extra_lora", "extra_lora2", "extra_lora3">>
EnabledKey == <<"extra_lora_enabled", "extra_lora2_enabled", "extra_lora3_enabled">>
HighNameKey == <<"extra_lora_high_name", "extra_lora2_high_name", "extra_lora3_high_name">>
LowNameKey == <<"extra_lora_low_name", "extra_lora2_low_name", "extra_lora3_low_name">>
StrengthKeys ==
    <<<<"extra_lora_strength_high", "extra_lora_strength_low", "extra_lora_strength">>,
      <<"extra_lora2_strength_high", "extra_lora2_strength_low", "extra_lora2_strength">>,
      <<"extra_lora3_strength_high", "extra_lora3_strength_low", "extra_lora3_strength">>>>

(* the same, on the enabled flag alone *)
ExtraSlotActiveByFlag(resolved_params, slot_idx) ==
    Truthy(Get(resolved_params, EnabledKey[slot_idx], RawBool(FALSE)))

(* prompt_builder.py:247-255, _extra_slot_active *)
ExtraSlotActive(resolved_params, slot_idx) ==
    LET enabled == Truthy(Get(resolved_params, EnabledKey[slot_idx], RawBool(FALSE)))
        high == Get(resolved_params, HighNameKey[slot_idx], RawStr(""))
        low == Get(resolved_params, LowNameKey[slot_idx], RawStr(""))
    IN  /\ enabled
        /\ Truthy(high) /\ Strip[high.str] # ""
        /\ Truthy(low) /\ Strip[low.str] # ""

(* prompt_builder.py:227-245, the loop over the declared parameters *)
RECURSIVE ApplyParams(_, _, _, _)
ApplyParams(prompt, workflow_def, resolved_params, names) ==
    IF names = <<>> THEN prompt
    ELSE LET pname == Head(names)
             pdef == workflow_def.parameters[pname]
             value == resolved_params[pname]
             skip == \/ pdef.nodes = <<>>
                     \/ /\ pname \in ExtraLoraNames
                        /\ value.kind = "str" /\ Strip[value.str] = ""
         IN  ApplyParams(IF skip THEN prompt
                         ELSE SetNodes(prompt, pdef.nodes, pdef.field, pdef.fields, value),
                         workflow_def, resolved_params, Tail(names))

(* prompt_builder.py:264-278, the strengths of an inactive slot *)
RECURSIVE ZeroStrengths(_, _, _)
ZeroStrengths(prompt, workflow_def, strength_keys) ==
    IF strength_keys = <<>> THEN prompt
    ELSE LET strength_key == Head(strength_keys)
             declared == /\ strength_key \in DOMAIN workflow_def.parameters
                         /\ workflow_def.parameters[strength_key].nodes # <<>>
             strength_def == workflow_def.parameters[strength_key]
         IN  ZeroStrengths(IF ~declared THEN prompt
                           ELSE SetNodes(prompt, strength_def.nodes, strength_def.field,
                                         strength_def.fields, RawFloat(0)),
                           workflow_def, Tail(strength_keys))

(* prompt_builder.py:259-278, the loop over the three slots *)
RECURSIVE ZeroInactiveSlots(_, _, _, _)
ZeroInactiveSlots(prompt, workflow_def, resolved_params, idx) ==
    IF idx > 3 THEN prompt
    ELSE ZeroInactiveSlots(IF ExtraSlotActive(resolved_params, idx) THEN prompt
                           ELSE ZeroStrengths(prompt, workflow_def, StrengthKeys[idx]),
                           workflow_def, resolved_params, idx + 1)

(* prompt_builder.py:286-291, _set_model_input *)
SetModelInput(prompt, node_id, src_id) ==
    SetNodeField(prompt, node_id, "model", <<>>, RawRef(src_id))

(* prompt_builder.py:282-314, the model-source rewire of the single-pass workflow *)
RewireModelSource(prompt, e1, e2) ==
    LET p1 == SetModelInput(SetModelInput(prompt, "201", "101"), "202", "102")
        p2 == IF e1 THEN SetModelInput(SetModelInput(p1, "211", "201"), "212", "202")
              ELSE SetModelInput(SetModelInput(p1, "211", "101"), "212", "102")
    IN  IF e2 THEN SetModelInput(SetModelInput(p2, "104", "211"), "103", "212")
        ELSE IF e1 THEN SetModelInput(SetModelInput(p2, "104", "201"), "103", "202")
        ELSE SetModelInput(SetModelInput(p2, "104", "101"), "103", "102")

(* prompt_builder.py:226-314, _apply_param_overrides *)
ApplyParamOverrides(prompt, workflow_def, resolved_params) ==
    LET p1 == ApplyParams(prompt, workflow_def, resolved_params, workflow_def.order)
        p2 == ZeroInactiveSlots(p1, workflow_def, resolved_params, 1)
    IN  IF workflow_def.name = "wan-context-lite-2stage"
        THEN RewireModelSource(p2, ExtraSlotActive(resolved_params, 1),
                               ExtraSlotActive(resolved_params, 2))
        ELSE p2

(* f"{attempt:02d}" *)
Digit == <<"0", "1", "2", "3", "4", "5", "6", "7", "8", "9">>

RECURSIVE Decimal(_)
Decimal(n) == IF n < 10 THEN <<Digit[n + 1]>> ELSE Decimal(n \div 10) \o <<Digit[(n % 10) + 1]>>

FormatPlain(n) ==
    Decimal(n)

Format02d(n) ==
    IF n < 10 THEN <<"0">> \o Decimal(n) ELSE Decimal(n)

(* str(resolved.get("output_prefix", "")): the characters of the prefixes of
   the model *)
Chars == [s \in {"", "out", "out/"} |->
             CASE s = "" -> <<>>
               [] s = "out" -> <<"o", "u", "t">>
               [] OTHER -> <<"o", "u", "t", "/">>]

(* prompt_builder.py:355-381, one turn of the attempt loop: the PromptSpec *)
BuildOne(workflow_def, effective, file, tries, attempt, resolution, flip, output_prefix_base, randomize, seed) ==
    LET p0 == workflow_def.template_prompt
        p1 == IF file # <<>> THEN ApplyInputBinding(p0, workflow_def, file[1].rel) ELSE p0
        p2 == ApplyParamOverrides(p1, workflow_def, effective)
        p3 == ApplySwitchStates(p2, workflow_def)
        p4 == NormalizeContextScheduleValues(p3)
        p5 == IF resolution # <<>> THEN ApplyResolution(p4, resolution[1], resolution[2])
              ELSE p4
        p6 == IF flip THEN FlipOrientation(p5) ELSE p5
        stem_base == IF file = <<>> THEN <<"p", "r", "o", "m", "p", "t">> ELSE file[1].stem
        stem == IF tries = 1 THEN stem_base
                ELSE stem_base \o <<"_", "t", "r", "y">> \o Format02d(attempt)
        named == SetOutputPrefix(p6, workflow_def, output_prefix_base, stem)
        seeded == SetSeed(named.prompt, workflow_def, randomize, seed)
    IN  [input_file |-> IF file = <<>> THEN "" ELSE file[1].path,
         prompt_json |-> seeded.prompt,
         seed_used |-> seeded.seed_used,
         output_prefix |-> named.out]

(* dict(resolved).update(override_raw), prompt_builder.py:351-352 *)
Merged(resolved, override_raw) ==
    [k \in DOMAIN resolved \cup DOMAIN override_raw |->
        IF k \in DOMAIN override_raw THEN override_raw[k] ELSE resolved[k]]

(* prompt_builder.py:343-381, the loop over the paths; files is input_files,
   or one empty entry for an input-less call; seeds are the numbers line 169
   draws, one for each spec *)
RECURSIVE BuildFiles(_, _, _, _, _, _, _, _)
BuildFiles(workflow_def, resolved, files, per_file_params, resolution, flip, seeds, done) ==
    IF files = <<>> THEN [ok |-> TRUE, specs |-> done]
    ELSE LET file == Head(files)
             override == IF file = <<>> THEN <<>>
                         ELSE IF file[1].path \in DOMAIN per_file_params
                         THEN <<per_file_params[file[1].path]>>
                         ELSE IF file[1].name \in DOMAIN per_file_params
                         THEN <<per_file_params[file[1].name]>>
                         ELSE <<>>
             again == IF override = <<>> THEN [ok |-> TRUE, map |-> resolved]
                      ELSE ResolveParams(workflow_def.parameters,
                                         Merged(resolved, override[1]))
             tries == Get(resolved, "tries", RawInt(10)).num \div 10
             randomize == Truthy(Get(resolved, "randomize_seed", RawBool(FALSE)))
                          \/ tries > 1
             do_flip == flip \/ Truthy(Get(resolved, "flip_orientation", RawBool(FALSE)))
             base == Chars[Get(resolved, "output_prefix", RawStr("")).str]
         IN  IF ~again.ok THEN [ok |-> FALSE]
             ELSE BuildFiles(workflow_def, resolved, Tail(files), per_file_params,
                             resolution, flip, seeds,
                             done \o [attempt \in 1..tries |->
                                         BuildOne(workflow_def, again.map, file, tries,
                                                  attempt, resolution, do_flip, base,
                                                  randomize, seeds[Len(done) + attempt])])

(* prompt_builder.py:318-383, build_prompts; ok = FALSE is the ValueError of
   resolve_params *)
BuildPrompts(workflow_def, input_files, params, per_file_params, resolution, flip_orientation, seeds) ==
    LET resolved == ResolveParams(workflow_def.parameters, params)
        paths == IF input_files # <<>> THEN [i \in DOMAIN input_files |-> <<input_files[i]>>]
                 ELSE <<<<>>>>
    IN  IF ~resolved.ok THEN [ok |-> FALSE]
        ELSE BuildFiles(workflow_def, resolved.map, paths, per_file_params, resolution,
                        flip_orientation, seeds, <<>>)

(* defs.py:17-59: the pieces of a workflow definition *)
NodeBinding(nodes, field, fields) == [nodes |-> nodes, field |-> field, fields |-> fields]

ParameterDef(type, default, min, max, nodes, field, fields) ==
    [type |-> type, default |-> default, min |-> min, max |-> max,
     nodes |-> nodes, field |-> field, fields |-> fields]

PlainParam(type, default) == ParameterDef(type, default, RawNone, RawNone, <<>>, NULL, <<>>)

(* the nodes a template of the model may have: a text encoder, an image
   loader, a saver, a context window node, a value that is not a dict, a
   sampler, the two LoRA loaders of extra slot 1, and a loader of slot 2 that
   has no "inputs" yet *)
TemplateNodes ==
    [n1 |-> [class_type |-> RawStr("CLIPTextEncode"),
             inputs |-> [text |-> RawStr("default")]],
     n2 |-> [class_type |-> RawStr("LoadImage"), inputs |-> [image |-> RawStr("")]],
     n9 |-> [class_type |-> RawStr("SaveImage"),
             inputs |-> [filename_prefix |-> RawStr("ComfyUI")]],
     n50 |-> [class_type |-> RawStr("WanContextWindowsManual"),
              inputs |-> [context_schedule |-> RawStr("uniform_standard")]],
     n7 |-> RawStr("note"),
     n104 |-> [class_type |-> RawStr("KSampler"),
               inputs |-> [noise_seed |-> RawInt(0), width |-> RawInt(6400),
                           height |-> RawInt(4800), model |-> RawRef("101")]],
     n201 |-> [class_type |-> RawStr("LoraLoaderModelOnly"),
               inputs |-> [lora_name |-> RawStr("base_high"),
                           strength_model |-> RawFloat(10), model |-> RawRef("101")]],
     n202 |-> [class_type |-> RawStr("LoraLoaderModelOnly"),
               inputs |-> [lora_name |-> RawStr("base_low"),
                           strength_model |-> RawFloat(10), model |-> RawRef("102")]],
     n211 |-> [class_type |-> RawStr("LoraLoaderModelOnly")]]

NodeIds ==
    [n1 |-> "1", n2 |-> "2", n9 |-> "9", n50 |-> "50", n7 |-> "7", n104 |-> "104",
     n201 |-> "201", n202 |-> "202", n211 |-> "211"]

(* the template over the given nodes *)
Template(keys) ==
    [nid \in {NodeIds[k] : k \in keys} |->
        TemplateNodes[CHOOSE k \in keys : NodeIds[k] = nid]]

Templates ==
    {Template({"n1", "n2", "n9", "n50", "n7"} \cup sampler \cup slot1 \cup slot2) :
        sampler \in {{}, {"n104"}}, slot1 \in {{}, {"n201", "n202"}},
        slot2 \in {{}, {"n211"}}}

(* two definitions: the single-pass workflow of prompt_builder.py:282 with
   its bindings, switch and extra-LoRA slots, and an input-less one with
   neither bindings nor switches (tests/test_prompt_builder_stage_workflows.py:
   174-214) *)
WorkflowParameters ==
    [positive_prompt |-> ParameterDef("text", RawStr(""), RawNone, RawNone,
                                      <<"1">>, "text", <<>>),
     extra_lora_enabled |-> PlainParam("bool", RawBool(FALSE)),
     extra_lora_high_name |-> ParameterDef("text", RawStr(""), RawNone, RawNone,
                                           <<"201">>, "lora_name", <<>>),
     extra_lora_low_name |-> ParameterDef("text", RawStr(""), RawNone, RawNone,
                                          <<"202">>, "lora_name", <<>>),
     extra_lora_strength_high |-> ParameterDef("float", RawFloat(10), RawFloat(0), RawFloat(20),
                                               <<"201">>, "strength_model", <<>>),
     extra_lora_strength_low |-> ParameterDef("float", RawFloat(10), RawFloat(0), RawFloat(20),
                                              <<"202">>, "strength_model", <<>>),
     extra_lora2_enabled |-> PlainParam("bool", RawBool(FALSE)),
     extra_lora2_high_name |-> PlainParam("text", RawStr("h2")),
     extra_lora2_low_name |-> PlainParam("text", RawStr("l2")),
     extra_lora2_strength |-> ParameterDef("float", RawFloat(8), RawNone, RawNone,
                                           <<"211">>, NULL, <<"strength", "strength_model">>),
     tries |-> ParameterDef("int", RawInt(10), RawInt(10), RawInt(110), <<>>, NULL, <<>>),
     randomize_seed |-> PlainParam("bool", RawBool(FALSE)),
     output_prefix |-> PlainParam("text", RawStr(""))]

WorkflowOrder ==
    <<"positive_prompt", "extra_lora_enabled", "extra_lora_high_name",
      "extra_lora_low_name", "extra_lora_strength_high", "extra_lora_strength_low",
      "extra_lora2_enabled", "extra_lora2_high_name", "extra_lora2_low_name",
      "extra_lora2_strength", "tries", "randomize_seed", "output_prefix">>

WorkflowDef(name, template_prompt) ==
    [name |-> name,
     parameters |-> WorkflowParameters,
     order |-> WorkflowOrder,
     file_bindings |->
        IF name = "image-gen-test" THEN <<>>
        ELSE [load_image |-> NodeBinding(<<"2">>, "image", <<>>),
              seed |-> NodeBinding(<<"104">>, NULL, <<"noise_seed", "seed">>),
              output_prefix |-> NodeBinding(<<"9">>, NULL, <<"prefix", "filename_prefix">>)],
     switch_states |->
        IF name = "image-gen-test" THEN <<>>
        ELSE <<[node_id |-> "50", field |-> "fuse_method", value |-> RawStr("pyramid")]>>,
     template_prompt |-> template_prompt]

(* the input files of a call: the resolved path, its name and stem, and the
   path relative to the upstream input directory (prompt_builder.py:149-157) *)
InputFile == [path |-> "/in/cat.png", name |-> "cat.png", rel |-> "cat.png",
              stem |-> <<"c", "a", "t">>]

(* the partial maps over the named choices *)
ParamMaps(choices) ==
    UNION {{p \in [D -> UNION {choices[n] : n \in DOMAIN choices}] :
               \A n \in D : p[n] \in choices[n]} : D \in SUBSET DOMAIN choices}

MaxTries == 11

BuildChoices ==
    [extra_lora_enabled |-> {RawBool(TRUE)},
     extra_lora_high_name |-> {RawStr(" "), RawStr("h")},
     extra_lora_low_name |-> {RawStr("l")},
     extra_lora_strength_high |-> {RawFloat(12)},
     extra_lora2_enabled |-> {RawBool(TRUE)},
     tries |-> {RawInt(20), RawInt(MaxTries * 10)},
     output_prefix |-> {RawStr("out/")}]

SeedDraws == {[k \in 1..(2 * MaxTries) |-> 100 + k], [k \in 1..(2 * MaxTries) |-> 7]}

(* the input files with the per-file overrides, and the resolution with the
   flip, of a call *)
FileChoices ==
    {[input_files |-> <<>>, per_file_params |-> <<>>],
     [input_files |-> <<InputFile>>, per_file_params |-> <<>>],
     [input_files |-> <<InputFile>>,
      per_file_params |-> [x \in {"cat.png"} |-> [positive_prompt |-> RawStr("x")]]]}

SizeChoices ==
    {[resolution |-> <<>>, flip_orientation |-> FALSE],
     [resolution |-> <<>>, flip_orientation |-> TRUE],
     [resolution |-> <<8320, 4800>>, flip_orientation |-> TRUE]}

InitBuild ==
    /\ fn \in {[op |-> "call",
                arg |-> [workflow_def |-> WorkflowDef(name, template),
                         input_files |-> files.input_files,
                         params |-> Put(params, "extra_lora_strength_low", RawFloat(11)),
                         per_file_params |-> files.per_file_params,
                         resolution |-> size.resolution,
                         flip_orientation |-> size.flip_orientation]] :
                  name \in {"wan-context-lite-2stage", "image-gen-test"},
                  template \in Templates,
                  files \in FileChoices,
                  params \in ParamMaps(BuildChoices),
                  size \in SizeChoices}
    /\ EmptyStore /\ paused = FALSE
    /\ pfile = <<>> /\ jmove = <<>> /\ moved = {}
    /\ AtRest

FnBuildPrompts ==
    /\ fn.op = "call"
    /\ \E seeds \in SeedDraws :
          fn' = [op |-> "build_prompts", arg |-> fn.arg,
                 res |-> BuildPrompts(fn.arg.workflow_def, fn.arg.input_files,
                                      fn.arg.params, fn.arg.per_file_params,
                                      fn.arg.resolution, fn.arg.flip_orientation, seeds)]
    /\ UNCHANGED <<jobs, prompts>> /\ FnOnly

NextBuild == FnBuildPrompts

SpecBuild == InitBuild /\ [][NextBuild]_vars

----------------------------------------------------------------------------
(* The prompt presets, db.py:72-77 and 461-495, app.py:551-565.

   The table is kept in fn.presets, a function from the preset's name to its
   row; fn.now is the clock utc_now reads.  A call names its mode keyword, or
   "absent" when the caller passes none. *)

MaxSaves == 3
PresetModes == {"video_gen", "video_upscale"}
PresetNames == {"walk", " interp ", " "}

(* str(name or "").strip(), db.py:474 *)
CleanName == [n \in PresetNames |-> CASE n = " interp " -> "interp" [] n = " " -> "" [] OTHER -> n]

(* ORDER BY updated_at DESC, name ASC, db.py:466: "interp" sorts before "walk" *)
PresetBefore(table, a, b) ==
    \/ table[a].updated_at > table[b].updated_at
    \/ table[a].updated_at = table[b].updated_at /\ a = "interp" /\ b = "walk"

(* db.py:462-471: the rows in order, cut at the limit, as dicts *)
PresetRows(table, limit) ==
    LET rank(n) == Cardinality({m \in DOMAIN table : PresetBefore(table, m, n)}) + 1
        count == IF Cardinality(DOMAIN table) < limit THEN Cardinality(DOMAIN table)
                 ELSE limit
    IN  [i \in 1..count |->
            LET n == CHOOSE m \in DOMAIN table : rank(m) = i
            IN  [name |-> n, positive_prompt |-> table[n].positive_prompt,
                 negative_prompt |-> table[n].negative_prompt,
                 updated_at |-> table[n].updated_at]]

InitPreset ==
    /\ fn = [op |-> "none", presets |-> <<>>, now |-> 1]
    /\ EmptyStore /\ paused = FALSE
    /\ pfile = <<>> /\ jmove = <<>> /\ moved = {}
    /\ AtRest

(* db.py:473-495, save_prompt_preset(name, positive_prompt, negative_prompt),
   called as app.py:554 and the tests call it, with mode=..., or without: the
   method has no mode parameter, so a call that passes one raises TypeError
   before the body runs *)
FnSavePromptPreset ==
    /\ fn.now <= MaxSaves
    /\ \E name \in PresetNames, positive \in {"a", "c"}, mode \in PresetModes \cup {"absent"},
          tick \in {0, 1} :
          LET arg == [name |-> name, positive_prompt |-> positive,
                      negative_prompt |-> "b", mode |-> mode]
              row == [positive_prompt |-> positive, negative_prompt |-> "b",
                      updated_at |-> fn.now]
          IN  IF mode # "absent"
              THEN fn' = [op |-> "save_prompt_preset", arg |-> arg,
                          presets |-> fn.presets, now |-> fn.now,
                          res |-> [ok |-> FALSE, error |-> "TypeError"]]
              ELSE IF CleanName[name] = ""
              THEN fn' = [op |-> "save_prompt_preset", arg |-> arg,
                          presets |-> fn.presets, now |-> fn.now,
                          res |-> [ok |-> FALSE, error |-> "ValueError"]]
              ELSE fn' = [op |-> "save_prompt_preset", arg |-> arg,
                          presets |-> Put(fn.presets, CleanName[name], row),
                          now |-> fn.now + tick,
                          res |-> [ok |-> TRUE,
                                   item |-> [name |-> CleanName[name],
                                             positive_prompt |-> positive,
                                             negative_prompt |-> "b",
                                             updated_at |-> fn.now]]]
    /\ UNCHANGED <<jobs, prompts>> /\ FnOnly

(* db.py:461-471, list_prompt_presets(limit), called as app.py:548 and the
   tests call it, with mode=..., or without: the method has no mode parameter *)
FnListPromptPresets ==
    /\ \E limit \in {1, 50}, mode \in PresetModes \cup {"absent"} :
          LET arg == [limit |-> limit, mode |-> mode]
          IN  fn' = [op |-> "list_prompt_presets", arg |-> arg,
                     presets |-> fn.presets, now |-> fn.now,
                     res |-> IF mode # "absent" THEN [ok |-> FALSE, error |-> "TypeError"]
                             ELSE [ok |-> TRUE, items |-> PresetRows(fn.presets, limit)]]
    /\ UNCHANGED <<jobs, prompts>> /\ FnOnly

NextPreset == FnSavePromptPreset \/ FnListPromptPresets

SpecPreset == InitPreset /\ [][NextPreset]_vars

----------------------------------------------------------------------------
(* The two reconciliation passes on their own, worker.py:229-374: the store a
   previous run left behind, and the upstream as what it answers for each
   running row: its history entry (or a raise), whether the queue listing could
   be fetched and whether the row's id is in it.  fn holds the locals of the
   pass: the rows still to do, the rows list_running_prompts returned, and the
   position (list, row, done, or dead when an exception left the pass). *)

ReconStore ==
    {<<p1>> : p1 \in {[NewPrompt(1) EXCEPT !.status = "running", !.prompt_id = u] :
                         u \in {NULL, "uid"}}}
    \cup
    {<<p1, p2, NewPrompt(1)>> :
        p1 \in {[NewPrompt(1) EXCEPT !.status = "running", !.prompt_id = u] :
                   u \in {NULL, "uid"}},
        p2 \in {[NewPrompt(1) EXCEPT !.status = s, !.prompt_id = "uid2"] :
                   s \in {"running", "succeeded"}}}

InitRecon ==
    /\ jobs = <<[NewJob(0) EXCEPT !.status = "running", !.started_at = "ts"]>>
    /\ prompts \in ReconStore
    /\ spec_n = <<Len(prompts)>>
    /\ \E pass \in {"startup", "in_loop"}, qavail \in BOOLEAN,
          history \in [1..2 -> HistoryAnswers], inq \in [1..2 -> BOOLEAN] :
          fn = [op |-> pass, pc |-> "list", rows |-> <<>>, listed |-> <<>>,
                qavail |-> qavail, history |-> history, inq |-> inq]
    /\ paused = FALSE
    /\ pfile = <<>> /\ jmove = <<>> /\ moved = {}
    /\ wk = WkLoop /\ api = ApiIdle
    /\ ops = 0 /\ answers = AllAnswers
    /\ cancel_ret = {} /\ inflight = {} /\ posted = {}
    /\ LifeInit

(* worker.py:230-232 and 296-304: list_running_prompts, and at startup the
   queue listing *)
RList ==
    /\ fn.pc = "list"
    /\ LET rows == ListRunningPrompts(prompts)
       IN  fn' = [fn EXCEPT !.rows = rows, !.listed = rows,
                            !.pc = IF rows = <<>> THEN "done" ELSE "row"]
    /\ UNCHANGED <<jobs, prompts>> /\ FnOnly

(* worker.py:234-293 and 306-374: one turn of the loop over the rows, with the
   update_job_status that follows a write; a get_outputs that raises
   (worker.py:263, 333) leaves the pass *)
RRow ==
    /\ fn.pc = "row"
    /\ LET r == Head(fn.rows)
           rest == Tail(fn.rows)
           answer == fn.history[r]
           ps2 == ReconcileWrite(prompts, r, answer, fn.op = "startup",
                                 fn.qavail /\ ~fn.inq[r])
       IN  IF prompts[r].prompt_id # NULL /\ answer = "outputs_raise"
           THEN /\ fn' = [fn EXCEPT !.pc = "dead"]
                /\ UNCHANGED <<jobs, prompts>>
           ELSE /\ prompts' = ps2
                /\ jobs' = IF ps2 # prompts
                           THEN UpdateJobStatus(ps2, jobs, prompts[r].job_id)
                           ELSE jobs
                /\ fn' = [fn EXCEPT !.rows = rest,
                                    !.pc = IF rest = <<>> THEN "done" ELSE "row"]
    /\ FnOnly

NextRecon == RList \/ RRow

SpecRecon == InitRecon /\ [][NextRecon]_vars

----------------------------------------------------------------------------
(* One prompt dispatched by the main loop (worker.py:147-222) against the
   upstream client (comfy_client.py:59-161), request by request.  Every
   request draws what urlopen meets; fn holds the position of the dispatch
   (submit, poll, outputs, done), what the last request met, the exception
   that left the try block, the last history entry polled and the number of
   polls so far. *)

MaxPolls == 2

(* comfy_client.py:8-29: the exception classes of the client, and the class of
   anything else a request can raise (json.JSONDecodeError of a body that is
   not JSON, comfy_client.py:72) *)
ExcClasses ==
    {"ComfyError", "ComfyUnreachableError", "ComfyValidationError", "ComfyServerError",
     "ComfyTimeoutError", "JSONDecodeError"}

(* comfy_client.py:8-29: the classes an exception of class cls is an instance of *)
Bases(cls) ==
    IF cls = "ComfyError" THEN {"ComfyError", "Exception"}
    ELSE IF cls \in {"ComfyUnreachableError", "ComfyValidationError", "ComfyServerError",
                     "ComfyTimeoutError"}
         THEN {cls, "ComfyError", "Exception"}
    ELSE {cls, "Exception"}

(* comfy_client.py:68-88: what urlopen and the reading of the body can meet: a
   JSON body, an HTTPError with its code, one of the exceptions of the except
   tuple, or a body json.loads rejects *)
HttpCodes == {400, 404, 500, 503, 599}

Met(kind, code) == [kind |-> kind, code |-> code]

Transports ==
    {Met(k, 0) : k \in {"json", "URLError", "TimeoutError", "socket.timeout",
                        "ConnectionRefusedError", "bad_body"}}
    \cup {Met("HTTPError", c) : c \in HttpCodes}

(* comfy_client.py:59-88, _request_json: the class of the exception it raises,
   NULL when it returns the decoded body *)
RequestJson(met) ==
    IF met.kind = "json" THEN NULL
    ELSE IF met.kind = "HTTPError"
         THEN IF met.code = 400 THEN "ComfyValidationError"
              ELSE IF 500 <= met.code /\ met.code < 600 THEN "ComfyServerError"
              ELSE "ComfyError"
    ELSE IF met.kind \in {"URLError", "TimeoutError", "socket.timeout",
                          "ConnectionRefusedError"}
         THEN "ComfyUnreachableError"
    ELSE "JSONDecodeError"

(* comfy_client.py:101-106, queue_prompt: the exception it raises, NULL when it
   returns the id; has_id says whether the decoded body carries a prompt_id *)
QueuePrompt(met, has_id) ==
    IF RequestJson(met) # NULL THEN RequestJson(met)
    ELSE IF ~has_id THEN "ComfyError"
    ELSE NULL

(* variant of ExceptClause: the clause of ComfyError comes first *)
ExceptClauseBaseFirst(cls) ==
    IF "ComfyError" \in Bases(cls) THEN "error"
    ELSE IF "ComfyValidationError" \in Bases(cls) THEN "validation_error"
    ELSE IF "ComfyUnreachableError" \in Bases(cls) THEN "unreachable"
    ELSE "exception"

(* worker.py:177-212: the exit_status of the first except clause that matches
   an exception of class cls *)
ExceptClause(cls) ==
    IF "ComfyValidationError" \in Bases(cls) THEN "validation_error"
    ELSE IF "ComfyUnreachableError" \in Bases(cls) THEN "unreachable"
    ELSE IF "ComfyError" \in Bases(cls) THEN "error"
    ELSE "exception"

(* comfy_client.py:149-153: the history body as far as poll_until_done reads
   it: whether the id is a key of it, status.completed and status.status_str
   (NULL when the key is missing) *)
HistoryEntry(present, completed, status_str) ==
    [present |-> present, completed |-> completed, status_str |-> status_str]

NoEntry == HistoryEntry(FALSE, FALSE, NULL)

HistoryEntries ==
    {NoEntry} \cup
    {HistoryEntry(TRUE, c, s) :
        c \in BOOLEAN, s \in {NULL, "success", "running", "error", "failed", "canceled"}}

(* comfy_client.py:153 *)
StatusStr(entry) == IF entry.status_str = NULL THEN "unknown" ELSE entry.status_str

(* comfy_client.py:148-161, one turn of the loop of poll_until_done on a
   decoded history body: what it returns, or that it sleeps and goes on *)
PollOnce(entry, expired) ==
    IF entry.present /\ entry.completed
    THEN [done |-> TRUE, ok |-> TRUE, status |-> StatusStr(entry)]
    ELSE IF entry.present /\ StatusStr(entry) \in {"error", "failed", "canceled"}
    THEN [done |-> TRUE, ok |-> FALSE, status |-> StatusStr(entry)]
    ELSE IF expired
    THEN [done |-> TRUE, ok |-> FALSE, status |-> "timeout"]
    ELSE [done |-> FALSE, ok |-> FALSE, status |-> NULL]

(* worker.py:147-148: the prompt was marked running and its job recomputed;
   the job may hold a second, pending prompt and a cancel request *)
InitDispatch ==
    /\ \E cancel_requested \in {0, 1}, more \in BOOLEAN :
          /\ jobs = <<[NewJob(0) EXCEPT !.status = "running", !.started_at = "ts",
                                        !.cancel_requested = cancel_requested]>>
          /\ prompts = <<[NewPrompt(1) EXCEPT !.status = "running", !.started_at = "ts"]>>
                          \o (IF more THEN <<NewPrompt(1)>> ELSE <<>>)
    /\ spec_n = <<Len(prompts)>>
    /\ fn = [op |-> "dispatch", pc |-> "submit", met |-> Met("json", 0), raised |-> NULL,
             entry |-> NoEntry, expired |-> FALSE, polls |-> 0, status |-> NULL]
    /\ paused = FALSE
    /\ pfile = <<>> /\ jmove = <<>> /\ moved = {}
    /\ wk = WkLoop /\ api = ApiIdle
    /\ ops = 0 /\ answers = AllAnswers
    /\ cancel_ret = {} /\ inflight = {} /\ posted = {}
    /\ LifeInit

(* worker.py:214-222: after the terminal write ps: cancel_pending_prompts when
   the job has cancel_requested, then update_job_status *)
DispatchEnd(ps) ==
    LET ps2 == IF jobs[1].cancel_requested = 1 THEN CancelPendingUpdate(ps, 1) ELSE ps
    IN  /\ prompts' = ps2
        /\ jobs' = UpdateJobStatus(ps2, jobs, 1)

(* worker.py:177-212: an exception of class cls left the try block *)
DispatchRaised(met, cls) ==
    /\ DispatchEnd(UpdatePromptStatus(prompts, 1, "failed", FailFields(ExceptClause(cls))))
    /\ fn' = [fn EXCEPT !.pc = "done", !.met = met, !.raised = cls]

(* worker.py:152-154: queue_prompt, and the id written to the row *)
DSubmit ==
    /\ fn.pc = "submit"
    /\ \E met \in Transports, has_id \in BOOLEAN :
          LET cls == QueuePrompt(met, has_id)
          IN  IF cls # NULL
              THEN DispatchRaised(IF met.kind = "json" THEN Met("no_prompt_id", 0) ELSE met,
                                  cls)
              ELSE /\ prompts' = UpdatePromptStatus(prompts, 1, "running",
                                                    [prompt_id |-> "uid"])
                   /\ fn' = [fn EXCEPT !.pc = "poll", !.met = met]
                   /\ UNCHANGED jobs
    /\ FnOnly

(* worker.py:156 and 166-175, comfy_client.py:147-161: one request of
   poll_until_done; the wall clock runs out at the latest after MaxPolls
   requests *)
DPoll ==
    /\ fn.pc = "poll"
    /\ \E met \in Transports, entry \in HistoryEntries,
          expired \in (IF fn.polls + 1 < MaxPolls THEN BOOLEAN ELSE {TRUE}) :
          LET cls == RequestJson(met)
              r == PollOnce(entry, expired)
          IN  IF cls # NULL
              THEN DispatchRaised(met, cls)
              ELSE IF ~r.done
              THEN /\ fn' = [fn EXCEPT !.met = met, !.entry = entry, !.polls = @ + 1]
                   /\ UNCHANGED <<jobs, prompts>>
              ELSE IF r.ok
              THEN /\ fn' = [fn EXCEPT !.pc = "outputs", !.met = met, !.entry = entry,
                                       !.polls = @ + 1, !.status = r.status]
                   /\ UNCHANGED <<jobs, prompts>>
              ELSE /\ DispatchEnd(UpdatePromptStatus(prompts, 1, "failed",
                                                     FailFields(r.status)))
                   /\ fn' = [fn EXCEPT !.pc = "done", !.met = met, !.entry = entry,
                                       !.expired = expired /\ r.status = "timeout",
                                       !.polls = @ + 1, !.status = r.status]
    /\ FnOnly

(* worker.py:157-165: get_outputs and the write of succeeded *)
DOutputs ==
    /\ fn.pc = "outputs"
    /\ \E met \in Transports, o \in OutputValues :
          LET cls == RequestJson(met)
          IN  IF cls # NULL
              THEN DispatchRaised(met, cls)
              ELSE /\ DispatchEnd(UpdatePromptStatus(prompts, 1, "succeeded",
                        [finished_at |-> "ts", exit_status |-> fn.status,
                         output_paths |-> o]))
                   /\ fn' = [fn EXCEPT !.pc = "done", !.met = met]
    /\ FnOnly

NextDispatch == DSubmit \/ DPoll \/ DOutputs

SpecDispatch == InitDispatch /\ [][NextDispatch]_vars

----------------------------------------------------------------------------
(* The head of the main loop (worker.py:108-127): the pause check, the health
   check with its backoff sleep, and the claim of the next pending prompt.
   One action is one iteration of the loop; fn holds _backoff_idx, the health
   checks made so far, the sleep of the last iteration and the prompt it
   claimed (0 for none). *)

MaxIters == 6

(* worker.py:45 *)
BackoffSteps == <<5, 10, 30, 60>>

Smaller(a, b) == IF a < b THEN a ELSE b

(* worker.py:114: _backoff_steps[min(_backoff_idx, len(_backoff_steps) - 1)],
   the list indexed from 0 *)
BackoffWait(idx) == BackoffSteps[Smaller(idx, Len(BackoffSteps) - 1) + 1]

(* variant of BackoffAdvance: the index wraps around instead of staying at the
   last step *)
BackoffAdvanceWrap(idx) ==
    (idx + 1) % Len(BackoffSteps)

(* worker.py:115 *)
BackoffAdvance(idx) ==
    Smaller(idx + 1, Len(BackoffSteps) - 1)

(* worker.py:44-45 and 102-107: a fresh worker over a queue of two pending
   prompts, paused or not; no prompt is running *)
InitBackoff ==
    /\ jobs = <<NewJob(0)>>
    /\ prompts = <<NewPrompt(1), NewPrompt(1)>>
    /\ spec_n = <<2>>
    /\ paused \in BOOLEAN
    /\ fn = [op |-> "loop", backoff_idx |-> 0, checks |-> <<>>, last |-> "none",
             wait_s |-> 0, claimed |-> 0]
    /\ pfile = <<>> /\ jmove = <<>> /\ moved = {}
    /\ wk = WkLoop /\ api = ApiIdle
    /\ ops = 0 /\ answers = AllAnswers
    /\ cancel_ret = {} /\ inflight = {} /\ posted = {}
    /\ LifeInit

BackoffOnly ==
    UNCHANGED <<wk, api, ops, answers, spec_n, cancel_ret, inflight, posted>>
    /\ UNCHANGED LifeVars /\ UNCHANGED FileVars

(* worker.py:109-111: paused, the iteration sleeps one second and starts over *)
BPaused ==
    /\ Len(fn.checks) < MaxIters
    /\ paused
    /\ fn' = [fn EXCEPT !.last = "paused", !.wait_s = 1, !.claimed = 0]
    /\ UNCHANGED <<jobs, prompts, paused>> /\ BackoffOnly

(* worker.py:113-117: the health check failed *)
BUnhealthy ==
    /\ Len(fn.checks) < MaxIters
    /\ ~paused
    /\ fn' = [fn EXCEPT !.last = "unhealthy",
                        !.checks = Append(@, FALSE),
                        !.wait_s = BackoffWait(fn.backoff_idx),
                        !.backoff_idx = BackoffAdvance(@),
                        !.claimed = 0]
    /\ UNCHANGED <<jobs, prompts, paused>> /\ BackoffOnly

(* worker.py:113 and 119-222: the health check passed; the reconciliation pass
   finds no running prompt, the index is reset, the next pending prompt is
   claimed and dispatched to its end *)
BHealthy ==
    /\ Len(fn.checks) < MaxIters
    /\ ~paused
    /\ LET r == NextPendingPrompt(prompts, jobs, paused, 0)
       IN  /\ fn' = [fn EXCEPT !.last = "healthy",
                               !.checks = Append(@, TRUE),
                               !.wait_s = IF r = 0 THEN 1 ELSE 0,
                               !.backoff_idx = 0,
                               !.claimed = r]
           /\ IF r = 0
              THEN UNCHANGED <<jobs, prompts>>
              ELSE \E end \in {"succeeded", "failed"} :
                      LET ps1 == UpdatePromptStatus(prompts, r, "running",
                                                    [started_at |-> "ts"])
                          ps2 == UpdatePromptStatus(ps1, r, end,
                                     [prompt_id |-> "uid", finished_at |-> "ts",
                                      exit_status |-> end])
                      IN  /\ prompts' = ps2
                          /\ jobs' = UpdateJobStatus(ps2, jobs, prompts[r].job_id)
    /\ UNCHANGED paused /\ BackoffOnly

(* db.py:108-114 via app.py: pause and resume, called while the loop sleeps *)
BSetPaused ==
    /\ Len(fn.checks) < MaxIters
    /\ paused' = ~paused
    /\ UNCHANGED <<jobs, prompts, fn>> /\ BackoffOnly

NextBackoff == BPaused \/ BUnhealthy \/ BHealthy \/ BSetPaused

SpecBackoff == InitBackoff /\ [][NextBackoff]_vars

----------------------------------------------------------------------------
(* The loop thread between its blocking points, and stop() (worker.py:59-62,
   102-227; comfy_client.py:138-161).  fn.pc is where the thread is: at the
   while test (top), in one of its sleeps (pause_sleep, backoff_sleep,
   idle_sleep inside the loop, poll_sleep inside poll_until_done), or out of
   _run_loop (exited).  One action runs the thread from one of these points
   to the next; fn.slept is the sleep it left last. *)

SleepPoints == {"pause_sleep", "backoff_sleep", "idle_sleep", "poll_sleep"}

StopOnly ==
    UNCHANGED <<wk, api, ops, answers, spec_n, cancel_ret, inflight, posted,
                w_thread, threads, req, serving>>
    /\ UNCHANGED FileVars

(* worker.py:102-106: the thread has set the running flag and the startup pass
   found no running prompt; the queue holds up to two pending prompts *)
InitStop ==
    /\ jobs = <<NewJob(0)>>
    /\ \E n \in 0..2 : prompts = [i \in 1..n |-> NewPrompt(1)]
    /\ spec_n = <<Len(prompts)>>
    /\ paused \in BOOLEAN
    /\ fn = [op |-> "run_loop", pc |-> "top", slept |-> "none", row |-> 0, polls |-> 0]
    /\ pfile = <<>> /\ jmove = <<>> /\ moved = {}
    /\ wk = WkLoop /\ api = ApiIdle
    /\ ops = 0 /\ answers = AllAnswers
    /\ cancel_ret = {} /\ inflight = {} /\ posted = {}
    /\ w_thread = 1 /\ threads = <<"loop">>
    /\ w_running = TRUE /\ stop_event = FALSE
    /\ req = [r \in 1..NumReq |-> "idle"]
    /\ serving = TRUE

(* worker.py:156-222: the terminal write of the dispatched row, then
   update_job_status; the thread is back at the while test *)
SFinish(end) ==
    LET ps == UpdatePromptStatus(prompts, fn.row, end,
                  [finished_at |-> "ts", exit_status |-> end])
    IN  /\ prompts' = ps
        /\ jobs' = UpdateJobStatus(ps, jobs, prompts[fn.row].job_id)
        /\ fn' = [fn EXCEPT !.pc = "top", !.slept = fn.pc, !.row = 0, !.polls = 0]

(* worker.py:108 and 225-227: the while test sees the stop event; the finally
   clears the running flag *)
SExit ==
    /\ fn.pc = "top" /\ stop_event
    /\ fn' = [fn EXCEPT !.pc = "exited"]
    /\ w_running' = FALSE
    /\ UNCHANGED <<jobs, prompts, paused, stop_event>> /\ StopOnly

(* worker.py:108-124: the while test passes; the iteration sleeps because the
   queue is paused, the upstream is unhealthy or no prompt is pending *)
SIdle ==
    /\ fn.pc = "top" /\ ~stop_event
    /\ \E healthy \in BOOLEAN :
          fn' = [fn EXCEPT !.pc = IF paused THEN "pause_sleep"
                                  ELSE IF ~healthy THEN "backoff_sleep"
                                  ELSE "idle_sleep"]
          /\ (paused \/ ~healthy \/ NextPendingPrompt(prompts, jobs, paused, 0) = 0)
    /\ UNCHANGED <<jobs, prompts, paused, stop_event, w_running>> /\ StopOnly

(* worker.py:108-156 and comfy_client.py:147-161: the while test passes, the
   next pending prompt is marked running and submitted, and the first history
   request of poll_until_done finds the prompt not done *)
SClaim ==
    /\ fn.pc = "top" /\ ~stop_event /\ ~paused
    /\ LET r == NextPendingPrompt(prompts, jobs, paused, 0)
           ps == UpdatePromptStatus(prompts, r, "running",
                     [started_at |-> "ts", prompt_id |-> "uid"])
       IN  /\ r # 0
           /\ prompts' = ps
           /\ jobs' = UpdateJobStatus(ps, jobs, prompts[r].job_id)
           /\ fn' = [fn EXCEPT !.pc = "poll_sleep", !.row = r, !.polls = 1]
    /\ UNCHANGED <<paused, stop_event, w_running>> /\ StopOnly

(* worker.py:111, 116 and 123: a sleep of the loop is over, continue *)
SWake ==
    /\ fn.pc \in {"pause_sleep", "backoff_sleep", "idle_sleep"}
    /\ fn' = [fn EXCEPT !.pc = "top", !.slept = fn.pc]
    /\ UNCHANGED <<jobs, prompts, paused, stop_event, w_running>> /\ StopOnly

(* comfy_client.py:147-161: the poll-interval sleep is over and the next
   history request is made: the prompt is done, or the wall clock ran out
   (at the latest after MaxPolls requests), or the function sleeps again *)
SPoll ==
    /\ fn.pc = "poll_sleep"
    /\ \/ /\ fn.polls < MaxPolls
          /\ fn' = [fn EXCEPT !.polls = @ + 1]
          /\ UNCHANGED <<jobs, prompts>>
       \/ \E end \in {"succeeded", "failed"} : SFinish(end)
    /\ UNCHANGED <<paused, stop_event, w_running>> /\ StopOnly

(* worker.py:59-60: stop() sets the stop event *)
SStop ==
    /\ ~stop_event
    /\ stop_event' = TRUE
    /\ UNCHANGED <<jobs, prompts, paused, fn, w_running>> /\ StopOnly

(* db.py:108-114: pause() and resume() from a request *)
SSetPaused ==
    /\ fn.pc # "exited"
    /\ paused' = ~paused
    /\ UNCHANGED <<jobs, prompts, fn, stop_event, w_running>> /\ StopOnly

NextStop == SExit \/ SIdle \/ SClaim \/ SWake \/ SPoll \/ SStop \/ SSetPaused

SpecStop == InitStop /\ [][NextStop]_vars

----------------------------------------------------------------------------
(* retry_job called on its own (db.py:350-366) on one job in any status, with
   either value of cancel_requested, over up to MaxQueued prompts in any
   status; fn keeps the call and the ids of the prompts that were failed. *)

(* db.py:176-196 as the worker calls it: a prompt row of job j as it is in
   the given status, with the fields the worker wrote on the way *)
PromptRan(j, status) ==
    IF status = "pending" THEN NewPrompt(j)
    ELSE IF status = "running"
    THEN [NewPrompt(j) EXCEPT !.status = status, !.started_at = "ts", !.prompt_id = "uid"]
    ELSE IF status = "succeeded"
    THEN [NewPrompt(j) EXCEPT !.status = status, !.started_at = "ts", !.prompt_id = "uid",
                              !.finished_at = "ts", !.exit_status = "success",
                              !.output_paths = "paths"]
    ELSE [NewPrompt(j) EXCEPT !.status = status, !.started_at = "ts",
                              !.finished_at = "ts", !.exit_status = "error",
                              !.error_detail = "text"]

InitRetry ==
    /\ \E st \in Statuses, c \in {0, 1} :
          jobs = <<[NewJob(0) EXCEPT !.status = st, !.cancel_requested = c,
                                     !.started_at = IF st = "pending" THEN NULL ELSE "ts",
                                     !.finished_at = IF st \in TerminalStatuses
                                                     THEN "ts" ELSE NULL]>>
    /\ \E sts \in SeqsUpTo(Statuses, MaxQueued) :
          prompts = [k \in DOMAIN sts |-> PromptRan(1, sts[k])]
    /\ paused \in BOOLEAN
    /\ AtRest /\ NoFiles

(* db.py:350-366: retry_job(1), the two UPDATEs and update_job_status *)
FnRetryJob ==
    /\ fn.op = "none"
    /\ LET ps == RetryPromptsUpdate(prompts, 1)
       IN  /\ prompts' = ps
           /\ jobs' = UpdateJobStatus(ps, RetryJobUpdate(jobs, 1), 1)
    /\ fn' = [op |-> "retry_job", arg |-> 1,
              failed |-> {i \in DOMAIN prompts : prompts[i].status = "failed"}]
    /\ FnOnly

NextRetry == FnRetryJob

SpecRetry == InitRetry /\ [][NextRetry]_vars

----------------------------------------------------------------------------
(* A restarted worker and an upstream that comes back (worker.py:102-121,
   229-374).  The store holds the job the killed run left behind, its prompt
   running with upstream id "uid", and a second job of up to two pending
   prompts.  fn holds the upstream as the client sees it: reachable or not
   (up), and what it knows of "uid": still queued, done (a history entry with
   completed = true) or forgotten (in neither queue nor history); and the
   loop thread's position and _backoff_idx.  The upstream becomes reachable
   in the end and stays so after at most MaxOutages further outages; the
   worker keeps running (weak fairness on its steps). *)

MaxOutages == 1

UpstreamKnows == {"queued", "done", "forgotten"}

(* comfy_client.py:108-113 and worker.py:248-254, 320-326: the history lookup
   of "uid" as the reconciliation passes read it *)
HistoryAnswer(up, knows) ==
    IF ~up THEN "raise" ELSE IF knows = "done" THEN "completed" ELSE "none"

(* worker.py:300-304 and 366: the queue listing was obtained and does not
   list "uid" *)
NotInQueue(up, knows) == up /\ knows # "queued"

InitForget ==
    /\ \E n \in 0..2 :
          /\ jobs = <<[NewJob(0) EXCEPT !.status = "running", !.started_at = "ts"]>>
                       \o (IF n = 0 THEN <<>> ELSE <<NewJob(0)>>)
          /\ prompts = <<[NewPrompt(1) EXCEPT !.status = "running", !.started_at = "ts",
                                              !.prompt_id = "uid"]>>
                          \o [i \in 1..n |-> NewPrompt(2)]
          /\ spec_n = IF n = 0 THEN <<1>> ELSE <<1, n>>
    /\ \E up \in BOOLEAN, knows \in UpstreamKnows :
          fn = [op |-> "run_loop", pc |-> "startup", up |-> up, knows |-> knows,
                outages |-> 0, backoff_idx |-> 0]
    /\ paused = FALSE
    /\ pfile = <<>> /\ jmove = <<>> /\ moved = {}
    /\ wk = WkLoop /\ api = ApiIdle
    /\ ops = 0 /\ answers = AllAnswers
    /\ cancel_ret = {} /\ inflight = {} /\ posted = {1}
    /\ LifeInit

(* a reconciliation pass over the running prompt, if it is still running:
   the write for its row and the update_job_status that follows a write *)
ForgetPass(startup) ==
    IF prompts[1].status # "running"
    THEN UNCHANGED <<jobs, prompts>>
    ELSE LET ps == ReconcileWrite(prompts, 1, HistoryAnswer(fn.up, fn.knows), startup,
                                  NotInQueue(fn.up, fn.knows))
         IN  /\ prompts' = ps
             /\ jobs' = IF ps # prompts THEN UpdateJobStatus(ps, jobs, 1) ELSE jobs

(* worker.py:106 and 295-374: the startup pass *)
LStartup ==
    /\ fn.pc = "startup"
    /\ ForgetPass(TRUE)
    /\ fn' = [fn EXCEPT !.pc = "loop"]
    /\ FnOnly

(* worker.py:113-117: the health check fails, the iteration backs off *)
LBackoff ==
    /\ fn.pc = "loop" /\ ~fn.up
    /\ fn' = [fn EXCEPT !.backoff_idx = BackoffAdvance(@)]
    /\ UNCHANGED <<jobs, prompts>> /\ FnOnly

(* worker.py:113-123: the health check passes, the in-loop pass runs and the
   index is reset; no prompt is pending *)
LReconcile ==
    /\ fn.pc = "loop" /\ fn.up
    /\ ForgetPass(FALSE)
    /\ fn' = [fn EXCEPT !.backoff_idx = 0, !.pc = "claim"]
    /\ FnOnly

(* worker.py:121-222: next_pending_prompt on the store the pass left; a prompt
   it returns is dispatched to its end *)
LClaim ==
    /\ fn.pc = "claim"
    /\ LET r == NextPendingPrompt(prompts, jobs, paused, 0)
       IN  IF r = 0
           THEN UNCHANGED <<jobs, prompts>>
           ELSE \E end \in {"succeeded", "failed"} :
                   LET ps == UpdatePromptStatus(prompts, r, end,
                                 [started_at |-> "ts", prompt_id |-> "uid2",
                                  finished_at |-> "ts", exit_status |-> end])
                   IN  /\ prompts' = ps
                       /\ jobs' = UpdateJobStatus(ps, jobs, prompts[r].job_id)
    /\ fn' = [fn EXCEPT !.pc = "loop"]
    /\ FnOnly

(* the upstream becomes reachable *)
UComeUp ==
    /\ ~fn.up
    /\ fn' = [fn EXCEPT !.up = TRUE]
    /\ UNCHANGED <<jobs, prompts>> /\ FnOnly

(* the upstream becomes unreachable once more *)
UGoDown ==
    /\ fn.up /\ fn.outages < MaxOutages
    /\ fn' = [fn EXCEPT !.up = FALSE, !.outages = @ + 1]
    /\ UNCHANGED <<jobs, prompts>> /\ FnOnly

(* the upstream finishes the prompt it had queued, or loses it in a restart *)
UFinish ==
    /\ fn.knows = "queued"
    /\ \E k \in {"done", "forgotten"} : fn' = [fn EXCEPT !.knows = k]
    /\ UNCHANGED <<jobs, prompts>> /\ FnOnly

ForgetWorker == LStartup \/ LBackoff \/ LReconcile \/ LClaim

NextForget == ForgetWorker \/ UComeUp \/ UGoDown \/ UFinish

SpecForget ==
    /\ InitForget /\ [][NextForget]_vars
    /\ WF_vars(ForgetWorker) /\ WF_vars(UComeUp) /\ WF_vars(UFinish)

----------------------------------------------------------------------------
(* The store calls and the worker's stretches run one after another, none
   inside another: the calls of SpecMove and retry_job. *)

(* db.py:350-366, the whole of retry_job(j) *)
MRetryJob ==
    /\ \E j \in DOMAIN jobs :
          LET ps2 == RetryPromptsUpdate(prompts, j)
          IN  /\ prompts' = ps2
              /\ jobs' = UpdateJobStatus(ps2, RetryJobUpdate(jobs, j), j)
    /\ UNCHANGED <<pfile, jmove, moved>> /\ MoveOnly

NextSeq == NextMove \/ MRetryJob

SpecSeq == InitMove /\ [][NextSeq]_vars

----------------------------------------------------------------------------
(* One submit request, POST /api/jobs (app.py:959-1000), on an empty store
   with no worker attached (app.py:822-823).  The request is drawn in Init:
   whether the workflow is known, the prompt mode valid, the workflow takes
   input files, the input directory exists, the shared parameters and the
   resolution preset resolve, split_by_input, the number of tries, and for
   each input file of the directory what becomes of it in
   _enqueue_job_from_files: it is staged and its parameters resolve ("ok"),
   staging raises ("stage", app.py:802-803) or the resolution of its
   per-file parameters raises ("params", prompt_builder.py:347-353). *)

MaxInputs == 3
MaxAttempts == 2

FileFates == {"ok", "stage", "params"}

InitSubmit ==
    /\ EmptyStore
    /\ pfile = <<>> /\ jmove = <<>> /\ moved = {}
    /\ paused = FALSE
    /\ wk = WkInit /\ api = ApiIdle
    /\ ops = 0 /\ answers = AnswerClasses
    /\ cancel_ret = {} /\ inflight = {} /\ posted = {}
    /\ LifeInit
    /\ \E known, mode_ok, has_inputs, dir_ok, params_ok, split \in BOOLEAN,
          tries \in 1..MaxAttempts, fates \in SeqsUpTo(FileFates, MaxInputs) :
          fn = [op |-> "create_job", pc |-> "start", known |-> known,
                mode_ok |-> mode_ok, has_inputs |-> has_inputs, dir_ok |-> dir_ok,
                params_ok |-> params_ok, split_by_input |-> split, tries |-> tries,
                files |-> IF has_inputs THEN fates ELSE <<>>,
                k |-> 0, ret |-> 0]

(* db.py:116-151: create_job appends the job and one prompt per spec *)
CreateJobRows(js, ps, n) ==
    [jobs |-> Append(js, NewJob(0)),
     prompts |-> ps \o [i \in 1..n |-> NewPrompt(Len(js) + 1)]]

(* app.py:886-915: the try block of _enqueue_job_from_files raises on
   parameters or a preset that do not resolve, on a file that cannot be
   staged and on per-file parameters that do not resolve *)
EnqueueRaises(params_ok, files) ==
    ~params_ok \/ \E i \in DOMAIN files : files[i] # "ok"

(* prompt_builder.py:329-354: one prompt per input file and try, one per try
   for a workflow without input files *)
SpecCount(files, tries) ==
    (IF files = <<>> THEN 1 ELSE Len(files)) * tries

(* app.py:960-980: the checks of create_job before anything is enqueued *)
SubCheck ==
    /\ fn.op = "create_job" /\ fn.pc = "start"
    /\ IF \/ ~fn.known
          \/ ~fn.mode_ok
          \/ fn.has_inputs /\ (~fn.dir_ok \/ fn.files = <<>>)
       THEN fn' = [fn EXCEPT !.pc = "done", !.ret = 400]
       ELSE fn' = [fn EXCEPT !.pc = "enqueue", !.k = 1]
    /\ UNCHANGED <<jobs, prompts>> /\ FnOnly

(* app.py:982-1000 and 873-929: one call of _enqueue_job_from_files, over the
   k-th input alone when split_by_input is set and there are inputs, else over
   all of them; it answers 400 or creates the job, and the request answers 201
   after its last call *)
SubEnqueue ==
    /\ fn.op = "create_job" /\ fn.pc = "enqueue"
    /\ LET split == fn.split_by_input /\ fn.files # <<>>
           mine  == IF split THEN <<fn.files[fn.k]>> ELSE fn.files
           rows  == CreateJobRows(jobs, prompts, SpecCount(mine, fn.tries))
       IN  IF EnqueueRaises(fn.params_ok, mine)
           THEN /\ fn' = [fn EXCEPT !.pc = "done", !.ret = 400]
                /\ UNCHANGED <<jobs, prompts>>
           ELSE /\ jobs' = rows.jobs
                /\ prompts' = rows.prompts
                /\ fn' = IF split /\ fn.k < Len(fn.files)
                         THEN [fn EXCEPT !.k = fn.k + 1]
                         ELSE [fn EXCEPT !.pc = "done", !.ret = 201]
    /\ FnOnly

NextSubmit == SubCheck \/ SubEnqueue

SpecSubmit == InitSubmit /\ [][NextSubmit]_vars

----------------------------------------------------------------------------
(* Claims *)

StoredStatusDerived(j) ==
    jobs[j].status = DeriveStatus(JobPromptCounts(prompts, j), jobs[j].cancel_requested)

(* no store call is in progress: the adapter is between calls and the worker
   sleeps at the top of its loop or waits for the upstream *)
Quiescent == api.pc = "idle" /\ wk.pc \in {"loop", "poll"}

(* C1: whenever no store call is in progress, each job's stored status is the
   value the status rule derives from its prompts and its cancel_requested. *)
C1_StatusIsDerived ==
    Quiescent => \A j \in DOMAIN jobs : StoredStatusDerived(j)


(* C2: once cancel_job(J) has returned, and until retry_job(J) is called, the
   worker marks no prompt of J running and submits none to the upstream. *)
C2_NoDispatchAfterCancel ==
    [][(wk.pc \in {"mark_running", "submit"} /\ wk'.pc # wk.pc)
          => wk.job \notin cancel_ret]_vars

(* C3: next_pending_prompt returns nothing when is_paused() reads the flag set,
   and a row it returns is pending, its job has cancel_requested = 0 and its
   job's status is none of succeeded, failed, canceled. *)
C3_NextPendingEligible ==
    [][/\ (wk.pc = "npp_paused" /\ wk'.pc # wk.pc /\ paused)
            => (wk'.row = 0 /\ wk'.pc = "loop")
       /\ (wk.pc = "npp_select" /\ wk'.row # 0)
            => /\ wk'.row \in DOMAIN prompts
               /\ prompts[wk'.row].status = "pending"
               /\ jobs[prompts[wk'.row].job_id].cancel_requested = 0
               /\ jobs[prompts[wk'.row].job_id].status \notin TerminalStatuses]_vars

(* C3 witness: the worker was handed a row although an earlier pending prompt
   exists, which the filter left out. *)
C3_Witness ==
    /\ wk.pc = "cancel_check" /\ wk.row # 0
    /\ \E q \in DOMAIN prompts :
          /\ prompts[q].status = "pending" /\ ~Eligible(prompts, jobs, q)
          /\ Before(prompts, jobs, q, wk.row)

NumWithStatus(j, st) == Cardinality({i \in PromptsOf(prompts, j) : prompts[i].status = st})

CancelReturns == api.pc = "ret" /\ api.op = "cancel" /\ api.found

(* a call that ran from start to end while the worker slept or waited for the
   upstream *)
CancelAlone == CancelReturns /\ api.solo /\ wk.pc \in {"loop", "poll"}

(* the statements of cancel_job do what the claim says of them *)
CancelStatements ==
    /\ (api.pc = "cx_upd" /\ api'.pc # api.pc)
         => /\ \A i \in PromptsOf(prompts, api.job) :
                 prompts[i].status = "pending" => prompts'[i].status = "canceled"
            /\ api'.cnt = Cardinality({i \in DOMAIN prompts : prompts'[i] # prompts[i]})
    /\ (api.pc = "cx_count" /\ api'.pc # api.pc)
         => api'.running = NumWithStatus(api.job, "running")
    /\ CancelReturns
         => /\ jobs[api.job].cancel_requested = 1
            /\ (api.mode = "cancel_after_current") <=> (api.running > 0)
            /\ api.mode \in {"cancel_after_current", "immediate"}

(* C4 as amended: cancel_job(J) on an existing job sets every pending prompt of
   J to canceled and cancel_requested to 1; canceled_pending is the number of
   rows it changed, running_prompts the number of J's running prompts, mode is
   cancel_after_current iff running_prompts > 0; and on return from a call
   made while the worker sleeps or waits for the upstream, the job's status is running
   when a prompt is running, and canceled when none is running, none failed
   and at least one prompt of J is canceled. *)
C4_CancelSummary ==
    [][/\ CancelStatements
       /\ CancelAlone
            => /\ api.running = NumWithStatus(api.job, "running")
               /\ NumWithStatus(api.job, "pending") = 0
               /\ api.running > 0 => api.detail = "running"
               /\ (api.running = 0 /\ NumWithStatus(api.job, "failed") = 0
                     /\ NumWithStatus(api.job, "canceled") > 0)
                    => api.detail = "canceled"]_vars

(* C4 witness: cancel-after-current, one prompt running and one canceled by the call *)
C4_Witness ==
    /\ CancelAlone
    /\ api.cnt = 1 /\ api.running = 1 /\ api.detail = "running"

(* C4 as stated: ... and when none is running and no prompt failed the job's
   status is canceled on return. *)
C4_Original ==
    CancelAlone
        => /\ api.running = NumWithStatus(api.job, "running")
           /\ api.running > 0 => api.detail = "running"
           /\ (api.running = 0 /\ NumWithStatus(api.job, "failed") = 0)
                => api.detail = "canceled"

(* C5: a further cancel_job(J), one called when cancel_requested is already 1,
   while the worker sleeps or waits for the upstream, returns
   canceled_pending = 0 and the current number of running prompts, and leaves
   the job's status as it was. *)
C5_CancelIdempotent ==
    (CancelAlone /\ api.pre_flag = 1)
        => /\ api.cnt = 0
           /\ api.running = NumWithStatus(api.job, "running")
           /\ api.detail = api.pre_status

RetryUpdates == api.pc = "rt_upd" /\ api'.pc # api.pc

(* C6: except in the UPDATE of retry_job, a prompt that is succeeded, failed or
   canceled keeps its status and a running prompt does not return to pending. *)
C6_PromptMonotonic ==
    [][~RetryUpdates
          => \A i \in DOMAIN prompts :
                /\ prompts[i].status \in TerminalStatuses
                     => prompts'[i].status = prompts[i].status
                /\ prompts[i].status = "running" => prompts'[i].status # "pending"]_vars

(* C7: retry_job(J) resets exactly the failed prompts of J, under their ids, to
   pending with upstream id, started_at, finished_at, exit_status and
   error_detail cleared and output_paths '[]', and no statement of it changes
   any other prompt. *)
C7_RetryFrame ==
    [][(api.op = "retry" /\ api'.pc # api.pc)
          => /\ DOMAIN prompts' = DOMAIN prompts
             /\ \A i \in DOMAIN prompts :
                   IF RetryUpdates /\ prompts[i].job_id = api.job
                                   /\ prompts[i].status = "failed"
                   THEN prompts'[i] =
                          [prompts[i] EXCEPT !.status = "pending", !.prompt_id = NULL,
                               !.started_at = NULL, !.finished_at = NULL,
                               !.exit_status = NULL, !.error_detail = NULL,
                               !.output_paths = "[]"]
                   ELSE prompts'[i] = prompts[i]]_vars

(* C7 witness: the UPDATE of retry_job has reset a failed prompt while the
   store holds a prompt of another job and a failed one it had to leave alone *)
C7_Witness ==
    /\ api.op = "retry" /\ api.pc = "rt_job" /\ api.cnt >= 1
    /\ \E i \in DOMAIN prompts : prompts[i].job_id # api.job /\ prompts[i].status = "failed"

JobComplete(j) == Cardinality(PromptsOf(prompts, j)) = spec_n[j]

(* C8: when create_job returns the job has its n prompts, and every statement
   of the worker that returns rows of a job (the SELECT of next_pending_prompt,
   get_job, the counts of update_job_status) finds the job with all n. *)
C8_CreateAtomic ==
    [][/\ (api.pc = "ret" /\ api.op = "create") => JobComplete(api.job)
       /\ (wk.pc = "npp_select" /\ wk'.row # 0) => JobComplete(prompts[wk'.row].job_id)
       /\ (wk.pc \in {"cancel_check", "ujs_counts"} /\ wk'.pc # wk.pc)
            => JobComplete(wk.job)]_vars

(* C9: the worker has at most one prompt between its mark-running and its
   terminal write, and the prompt it submits or polls is that one. *)
C9_OneInFlight ==
    /\ Cardinality(inflight) <= 1
    /\ wk.pc \in {"submit", "poll"} => inflight = {wk.row}

(* C9 witness: a prompt is being polled while another one is ready to run *)
C9_Witness ==
    /\ wk.pc = "poll" /\ inflight = {wk.row}
    /\ SelectNextPending(prompts, jobs) # 0

AliveThreads == {t \in DOMAIN threads : threads[t] \in AliveStates}

(* C10: at most one worker loop thread is alive at any time, also when several
   requests reach Worker.start() through _ensure_worker_running after the
   previous loop thread has exited. *)
C10_OneLoopThread ==
    Cardinality(AliveThreads) <= 1

(* C11: no error scoped to one prompt ends the worker loop: whatever an
   upstream call of the dispatch or of a reconciliation pass raises, the loop
   thread stays alive. *)
C11_LoopSurvives ==
    wk.pc # "dead"

(* an active prompt: pending or running under a job that is pending or running *)
ActiveOn(ps, js, f) ==
    {i \in DOMAIN ps : /\ pfile[i] = f
                       /\ ps[i].status \in {"pending", "running"}
                       /\ js[ps[i].job_id].status \in {"pending", "running"}}

(* C12: move-processed moves no input file that a pending or running prompt,
   under a pending or running job, references. *)
C12_MoveSkipsActive ==
    [][\A f \in moved' \ moved : ActiveOn(prompts', jobs', f) = {}]_vars

(* cancel_job returned the summary of a cancel-after-current: one prompt
   running, at least one pending prompt canceled *)
CancelAfterCurrentReturns ==
    /\ CancelReturns /\ api.job = 1
    /\ api.running = 1 /\ api.cnt >= 1

(* C13: after cancel_job returned from a job with one running and at least one
   pending prompt, the worker being live and the upstream reporting a
   terminal state for the running prompt, the job's status eventually is
   canceled.  Stated here for the outcome that favours the claim: a behaviour
   in which the running prompt ends failed is not counted against it. *)
C13_EventuallyCanceled ==
    CancelAfterCurrentReturns
        ~> (jobs[1].status = "canceled" \/ prompts[1].status = "failed")

ChildCount(st) == Cardinality({i \in DOMAIN prompts : prompts[i].status = st})

(* the ordered rule, in the words of the claim *)
OrderedRule ==
    LET total == Len(prompts)
    IN  IF total = 0 THEN "pending"
        ELSE IF ChildCount("running") > 0 THEN "running"
        ELSE IF ChildCount("pending") > 0 THEN "pending"
        ELSE IF ChildCount("failed") > 0 THEN "failed"
        ELSE IF ChildCount("succeeded") = total THEN "succeeded"
        ELSE IF ChildCount("canceled") = total THEN "canceled"
        ELSE IF jobs[1].cancel_requested = 1 THEN "canceled"
        ELSE "succeeded"

(* C14: for every multiset of child statuses and either cancel_requested,
   update_job_status stores and returns the status of the ordered rule. *)
C14_OrderedRule ==
    fn.op = "update_job_status"
        => /\ fn.res = OrderedRule
           /\ jobs[1].status = OrderedRule

(* C14 witness: a mix of succeeded and canceled under cancel_requested *)
C14_Witness ==
    /\ fn.op = "update_job_status" /\ fn.res = "canceled"
    /\ jobs[1].cancel_requested = 1
    /\ ChildCount("succeeded") > 0 /\ ChildCount("canceled") > 0
    /\ ChildCount("succeeded") + ChildCount("canceled") = Len(prompts)

(* the pending prompts of eligible jobs among which the call chooses *)
Choices(job_id) ==
    {i \in DOMAIN prompts :
        /\ prompts[i].status = "pending"
        /\ jobs[prompts[i].job_id].status \in {"pending", "running"}
        /\ jobs[prompts[i].job_id].cancel_requested = 0
        /\ (job_id = 0 \/ prompts[i].job_id = job_id)}

(* priority descending, then the job's creation ascending, then prompt id ascending *)
ComesFirst(a, b) ==
    LET pa == jobs[prompts[a].job_id].priority
        pb == jobs[prompts[b].job_id].priority
    IN  IF pa # pb THEN pa > pb
        ELSE IF prompts[a].job_id # prompts[b].job_id THEN prompts[a].job_id < prompts[b].job_id
        ELSE a < b

(* C15: next_pending_prompt returns the pending prompt of an eligible job that
   is first by priority descending, job creation ascending, prompt id
   ascending; it returns nothing only when there is none or the queue is
   paused; a job_id argument restricts the choice to that job. *)
C15_FirstInOrder ==
    fn.op = "next_pending_prompt"
        => IF paused \/ Choices(fn.arg) = {}
           THEN fn.res = 0
           ELSE /\ fn.res \in Choices(fn.arg)
                /\ \A k \in Choices(fn.arg) \ {fn.res} : ComesFirst(fn.res, k)

(* C15 witness: the priority decides against prompt id and job creation *)
C15_Witness ==
    /\ fn.op = "next_pending_prompt" /\ fn.arg = 0 /\ fn.res # 0
    /\ \E k \in Choices(0) : k < fn.res /\ prompts[k].job_id < prompts[fn.res].job_id

(* C16: whenever the worker marks a prompt Q running, no prompt of the same
   job with a lower id is pending. *)
C16_AscendingDispatch ==
    [][(wk.pc = "mark_running" /\ wk'.pc # wk.pc)
          => \A p \in PromptsOf(prompts, prompts[wk.row].job_id) :
                p < wk.row => prompts[p].status # "pending"]_vars

(* C17: no statement of cancel_job(J) changes a prompt that is running,
   succeeded, failed or canceled, nor a prompt of another job; a running
   prompt of J keeps status running. *)
C17_CancelFrame ==
    [][(api.op = "cancel" /\ api'.pc # api.pc)
          => /\ DOMAIN prompts' = DOMAIN prompts
             /\ \A i \in DOMAIN prompts :
                   (prompts[i].status # "pending" \/ prompts[i].job_id # api.job)
                       => prompts'[i] = prompts[i]]_vars

(* C17 witness: the UPDATE of cancel_job has canceled a pending prompt of a job
   that has a running prompt, which is still running *)
C17_Witness ==
    /\ api.op = "cancel" /\ api.pc = "cx_flag" /\ api.cnt >= 1
    /\ \E i \in PromptsOf(prompts, api.job) : prompts[i].status = "running"

(* C18: in every reachable state a job's finished_at is set iff its status is
   succeeded, failed or canceled. *)
C18_FinishedIffTerminal ==
    \A j \in DOMAIN jobs :
        (jobs[j].finished_at # NULL) <=> (jobs[j].status \in TerminalStatuses)

(* C18 witness: retry_job took a job that had failed back to pending and
   returned, finished_at cleared *)
C18_Witness ==
    /\ api.op = "retry" /\ api.pc = "ret" /\ api.found /\ api.cnt >= 1
    /\ jobs[api.job].status = "pending" /\ jobs[api.job].finished_at = NULL
    /\ jobs[api.job].started_at = NULL

(* C19: has_active_prompts_for_input(f, exclude_job_id) is true iff some prompt
   on f is pending or running under a job that is pending or running and that
   is not exclude_job_id. *)
C19_ActiveIff ==
    fn.op = "has_active_prompts_for_input"
        => (fn.res <=> \E i \in ActiveOn(prompts, jobs, fn.arg.f) :
                          prompts[i].job_id # fn.arg.exclude)

(* C19 witness: false although a pending or running prompt is on the file: its
   job has ended, and the other such prompt belongs to the excluded job *)
C19_Witness ==
    /\ fn.op = "has_active_prompts_for_input" /\ ~fn.res
    /\ ActiveOn(prompts, jobs, fn.arg.f) # {}
    /\ \E i \in DOMAIN prompts :
          /\ pfile[i] = fn.arg.f /\ prompts[i].status = "pending"
          /\ jobs[prompts[i].job_id].status = "succeeded"

(* the number a value denotes: an int, a float, or a string that reads as one *)
IsNumber(value) ==
    \/ value.kind \in {"int", "float"}
    \/ value.kind = "str" /\ value.str \in DOMAIN FloatLiterals

NumberOf(value) ==
    IF value.kind = "str" THEN FloatLiterals[value.str] ELSE value

(* inside the inclusive range of parameter a, 0 to 5 *)
InRange(number) == number # RawNaN /\ number.num >= 0 /\ number.num <= 50

ExampleInput == [a |-> RawStr("3"), b |-> RawStr("YES"), c |-> RawNone]
ExampleResolved == [a |-> RawInt(30), b |-> RawBool(TRUE), c |-> RawStr("")]
CoercedDefaults == [a |-> [int |-> RawInt(30), float |-> RawFloat(30)],
                    b |-> [int |-> RawBool(FALSE), float |-> RawBool(FALSE)],
                    c |-> [int |-> RawStr(""), float |-> RawStr("")]]

(* C20: resolve_params returns a map over exactly the declared names, an absent
   name taking its coerced default; an undeclared input name makes the call
   fail; a number outside the inclusive range of an int or float parameter
   makes it fail; with a an int, a:"3", b:"YES", c:null resolves to a:3, b:true,
   c:"" and a:"7" fails. *)
C20_Resolves ==
    fn.op = "resolve_params" =>
        LET params == fn.arg.params
            atype == fn.arg.atype
            res == fn.res
        IN  /\ res.ok => DOMAIN res.map = {"a", "b", "c"}
            /\ res.ok => \A n \in {"a", "b", "c"} \ DOMAIN params :
                            res.map[n] = CoercedDefaults[n][atype]
            /\ DOMAIN params \ {"a", "b", "c"} # {} => ~res.ok
            /\ ("a" \in DOMAIN params /\ IsNumber(params.a)
                  /\ ~InRange(NumberOf(params.a))) => ~res.ok
            /\ (atype = "int" /\ params = ExampleInput) =>
                  res.ok /\ res.map = ExampleResolved
            /\ (atype = "int" /\ "a" \in DOMAIN params /\ params.a = RawStr("7")) =>
                  ~res.ok

(* the specs build_prompts returned *)
BuiltSpecs == IF fn.op = "build_prompts" /\ fn.res.ok THEN fn.res.specs ELSE <<>>

(* C21: every materialized prompt graph has exactly the node ids of the
   template; materialization neither adds nor removes a node. *)
C21_NodeIdsKept ==
    \A i \in DOMAIN BuiltSpecs :
        DOMAIN BuiltSpecs[i].prompt_json = DOMAIN fn.arg.workflow_def.template_prompt

C21_Witness ==
    /\ Len(BuiltSpecs) > 1
    /\ fn.arg.workflow_def.name = "wan-context-lite-2stage"
    /\ "211" \notin DOMAIN fn.arg.workflow_def.template_prompt
    /\ "201" \in DOMAIN fn.arg.workflow_def.template_prompt
    /\ fn.arg.input_files # <<>> /\ fn.arg.resolution # <<>>
    /\ BuiltSpecs[1].prompt_json # fn.arg.workflow_def.template_prompt
    /\ C21_NodeIdsKept

(* the tries the caller asked for, 1 when not given *)
AskedTries == IF "tries" \in DOMAIN fn.arg.params THEN fn.arg.params.tries.num \div 10 ELSE 1

Ending(chars, n) == SubSeq(chars, Len(chars) - n + 1, Len(chars))

TwoDigits(k) == <<Digit[(k \div 10) + 1], Digit[(k % 10) + 1]>>

(* C22: with tries = N > 1 and at most one input, build_prompts emits exactly N
   specs, the k-th with an output_prefix ending in _try and the two digits of
   k; with tries = 1 it emits one spec whose output_prefix has no _try part. *)
C22_TrySuffix ==
    (fn.op = "build_prompts" /\ fn.res.ok) =>
        /\ Len(BuiltSpecs) = AskedTries
        /\ AskedTries > 1 =>
              \A k \in DOMAIN BuiltSpecs :
                  /\ Len(BuiltSpecs[k].output_prefix) >= 6
                  /\ Ending(BuiltSpecs[k].output_prefix, 6)
                        = <<"_", "t", "r", "y">> \o TwoDigits(k)
        /\ AskedTries = 1 =>
              \A i \in DOMAIN BuiltSpecs[1].output_prefix :
                  BuiltSpecs[1].output_prefix[i] # "_"

C22_Witness ==
    /\ Len(BuiltSpecs) = MaxTries
    /\ fn.arg.input_files = <<>>
    /\ BuiltSpecs[MaxTries].output_prefix
          = <<"p", "r", "o", "m", "p", "t", "_", "t", "r", "y", "1", "1">>
    /\ BuiltSpecs[2].output_prefix
          = <<"p", "r", "o", "m", "p", "t", "_", "t", "r", "y", "0", "2">>

(* slot 1 and slot 2 as the caller set them: the flag is on and both names are
   non-empty after trimming *)
Slot1Active ==
    /\ "extra_lora_enabled" \in DOMAIN fn.arg.params
    /\ "extra_lora_high_name" \in DOMAIN fn.arg.params
    /\ fn.arg.params.extra_lora_high_name = RawStr("h")
    /\ "extra_lora_low_name" \in DOMAIN fn.arg.params

Slot2Active == "extra_lora2_enabled" \in DOMAIN fn.arg.params

SuppliedHigh == Get(fn.arg.params, "extra_lora_strength_high", RawFloat(10))

(* C23: the strengths of an extra-LoRA slot that is not active are written as
   0.0 whatever the caller supplied; those of an active slot are written as
   supplied. *)
C23_SlotStrengths ==
    \A i \in DOMAIN BuiltSpecs :
        LET graph == BuiltSpecs[i].prompt_json
        IN  /\ "201" \in DOMAIN graph =>
                  /\ graph["201"].inputs.strength_model
                        = IF Slot1Active THEN SuppliedHigh ELSE RawFloat(0)
                  /\ graph["202"].inputs.strength_model
                        = IF Slot1Active THEN RawFloat(11) ELSE RawFloat(0)
            /\ "211" \in DOMAIN graph =>
                  graph["211"].inputs.strength
                    = IF Slot2Active THEN RawFloat(8) ELSE RawFloat(0)

C23_Witness ==
    /\ BuiltSpecs # <<>>
    /\ "201" \in DOMAIN fn.arg.workflow_def.template_prompt
    /\ "extra_lora_enabled" \in DOMAIN fn.arg.params
    /\ "extra_lora_high_name" \in DOMAIN fn.arg.params
    /\ fn.arg.params.extra_lora_high_name = RawStr(" ")
    /\ "extra_lora_low_name" \in DOMAIN fn.arg.params
    /\ "extra_lora_strength_high" \in DOMAIN fn.arg.params
    /\ BuiltSpecs[1].prompt_json["201"].inputs.strength_model = RawFloat(0)
    /\ BuiltSpecs[1].prompt_json["202"].inputs.strength_model = RawFloat(0)

(* C24: a preset saved with mode m is stored and returned with its mode field
   equal to m, and list_prompt_presets(mode = m2) returns exactly the presets
   whose mode is m2. *)
C24_ModeFilter ==
    /\ (fn.op = "save_prompt_preset" /\ fn.arg.mode \in PresetModes
           /\ CleanName[fn.arg.name] # "") =>
          /\ fn.res.ok
          /\ "mode" \in DOMAIN fn.res.item /\ fn.res.item.mode = fn.arg.mode
          /\ CleanName[fn.arg.name] \in DOMAIN fn.presets
    /\ (fn.op = "list_prompt_presets" /\ fn.arg.mode \in PresetModes) =>
          /\ fn.res.ok
          /\ \A i \in DOMAIN fn.res.items :
                "mode" \in DOMAIN fn.res.items[i] /\ fn.res.items[i].mode = fn.arg.mode

(* row r is marked failed(interrupted) by this step *)
MarkedInterrupted(r) ==
    /\ prompts[r].status = "running"
    /\ prompts'[r].status = "failed" /\ prompts'[r].exit_status = "interrupted"

(* C25: the startup pass marks a running prompt failed(interrupted) only if it
   has no upstream id, or the queue listing was obtained and the id is neither
   in the queue nor in the history; a prompt whose history lookup fails is left
   running. *)
C25_InterruptedOnlyIfUnknown ==
    [][fn.op = "startup" =>
          \A r \in DOMAIN prompts :
              /\ MarkedInterrupted(r) =>
                    \/ prompts[r].prompt_id = NULL
                    \/ fn.qavail /\ ~fn.inq[r] /\ fn.history[r] = "none"
              /\ (prompts[r].prompt_id # NULL /\ fn.history[r] = "raise") =>
                    prompts'[r] = prompts[r]]_vars

(* the startup pass is over, by its end or by an exception *)
StartupOver == fn.op = "startup" /\ fn.pc \in {"done", "dead"}

(* C26: after the startup pass every listed prompt with an upstream id whose
   history entry is completed is succeeded with its outputs recorded, one whose
   entry reports error or failed is failed, one whose entry reports canceled is
   canceled, and the job's status is the one derived from its prompts. *)
C26_StartupFinalizes ==
    StartupOver =>
        \A i \in DOMAIN fn.listed :
            LET r == fn.listed[i]
                entry == fn.history[r]
            IN  prompts[r].prompt_id # NULL =>
                    /\ entry \in {"completed", "outputs_raise"} =>
                          /\ prompts[r].status = "succeeded"
                          /\ prompts[r].output_paths = "paths"
                    /\ entry \in {"error", "failed"} => prompts[r].status = "failed"
                    /\ entry = "canceled" => prompts[r].status = "canceled"
                    /\ entry \in {"completed", "outputs_raise", "error", "failed", "canceled"} =>
                          StoredStatusDerived(prompts[r].job_id)

(* C27: the pass in the loop leaves unchanged every running prompt that has an
   upstream id and no history entry, or whose history lookup fails, and marks
   no prompt that has an upstream id as interrupted. *)
C27_LoopPassLeavesUnknown ==
    [][fn.op = "in_loop" =>
          \A r \in DOMAIN prompts :
              prompts[r].prompt_id # NULL =>
                  /\ fn.history[r] \in {"none", "raise"} => prompts'[r] = prompts[r]
                  /\ ~MarkedInterrupted(r)]_vars

C27_Witness ==
    /\ fn.op = "in_loop" /\ fn.pc = "done" /\ fn.listed = <<1, 2>>
    /\ prompts[1].prompt_id = "uid" /\ fn.history[1] = "none"
    /\ fn.qavail /\ ~fn.inq[1]
    /\ prompts[1].status = "running" /\ prompts[1].exit_status = NULL
    /\ fn.history[2] = "failed" /\ prompts[2].status = "failed"
    /\ jobs[1].status = "running"

(* the exit_status the taxonomy gives to what a request met: HTTP 400 is a
   validation error, a refused or failed connection and a timeout are
   unreachable, any other HTTP code and a response without prompt_id are
   an error, anything else is an exception *)
TaxonomyExit(met) ==
    IF met.kind = "HTTPError" /\ met.code = 400 THEN "validation_error"
    ELSE IF met.kind \in {"URLError", "ConnectionRefusedError", "TimeoutError",
                          "socket.timeout"}
         THEN "unreachable"
    ELSE IF met.kind \in {"HTTPError", "no_prompt_id"} THEN "error"
    ELSE "exception"

(* C28: when a request of the dispatch raised, the prompt is failed with
   finished_at and error_detail set and with the exit_status of the taxonomy:
   validation_error for HTTP 400, unreachable for a connection failure or a
   timeout, error for any other upstream error (5xx and a response without
   prompt_id included), exception for anything else; and a prompt whose
   dispatch is over is never left running *)
C28_RaisedIsFailed ==
    /\ fn.pc = "done" => prompts[1].status # "running"
    /\ (fn.pc = "done" /\ fn.raised # NULL) =>
          /\ prompts[1].status = "failed"
          /\ prompts[1].finished_at # NULL
          /\ prompts[1].error_detail # NULL
          /\ prompts[1].exit_status = TaxonomyExit(fn.met)

(* a poll met HTTP 503 after the submission went through, and the prompt is
   failed with exit_status error *)
C28_Witness ==
    /\ fn.pc = "done" /\ fn.raised = "ComfyServerError" /\ fn.polls = 1
    /\ fn.met = Met("HTTPError", 503)
    /\ prompts[1].prompt_id = "uid"
    /\ prompts[1].status = "failed" /\ prompts[1].exit_status = "error"

(* C29: once the dispatch is over the prompt is succeeded exactly when the
   last history entry polled reported completed = true; when that entry
   reported error, failed or canceled without completed, or when the poll
   timed out, the prompt is failed with that string (timeout) as exit_status *)
C29_SucceededIffCompleted ==
    fn.pc = "done" =>
        /\ prompts[1].status = "succeeded" <=> (fn.entry.present /\ fn.entry.completed)
        /\ (/\ fn.entry.present /\ ~fn.entry.completed
            /\ StatusStr(fn.entry) \in {"error", "failed", "canceled"}) =>
               /\ prompts[1].status = "failed"
               /\ prompts[1].exit_status = StatusStr(fn.entry)
        /\ fn.expired =>
               /\ prompts[1].status = "failed"
               /\ prompts[1].exit_status = "timeout"

RECURSIVE TrailingFailures(_)
(* the number of failed health checks at the end of the checks made so far *)
TrailingFailures(checks) ==
    IF checks = <<>> \/ checks[Len(checks)] THEN 0
    ELSE 1 + TrailingFailures(SubSeq(checks, 1, Len(checks) - 1))

(* the k-th wait of the sequence 5, 10, 30, 60, which stays at 60 from the
   fourth on *)
KthWait(k) == IF k = 1 THEN 5 ELSE IF k = 2 THEN 10 ELSE IF k = 3 THEN 30 ELSE 60

(* C30: the sleep after the k-th consecutive failed health check is the k-th
   of 5, 10, 30, 60 and 60 from the fourth on; a health check that passes
   resets the index; an iteration whose health check failed claims no prompt
   and changes no prompt *)
C30_Backoff ==
    /\ [](fn.last = "unhealthy" =>
            /\ fn.wait_s = KthWait(TrailingFailures(fn.checks))
            /\ fn.claimed = 0)
    /\ [](fn.last = "healthy" => fn.backoff_idx = 0)
    /\ [][fn'.checks = Append(fn.checks, FALSE) => UNCHANGED <<prompts, jobs>>]_vars

(* the fifth failed health check in a row right after one that passed and
   claimed a prompt: the sleep is 60 *)
C30_Witness ==
    /\ fn.last = "unhealthy" /\ fn.wait_s = 60
    /\ fn.checks = <<TRUE, FALSE, FALSE, FALSE, FALSE, FALSE>>
    /\ prompts[1].status \in TerminalStatuses /\ prompts[2].status = "pending"

(* C31: no prompt goes from pending to running in a state where the queue's
   paused flag is set, however pause() interleaves with the worker loop *)
C31_NoRunWhilePaused ==
    [][(\E i \in DOMAIN prompts :
           prompts[i].status = "pending" /\ prompts'[i].status = "running")
          => ~paused]_vars

(* C32: once the stop event is set, a thread that leaves one of its sleeps
   (pause, backoff, idle, poll interval) comes to the while test before it
   sleeps again; no prompt is marked running while the stop event is set; and
   a thread that left _run_loop has cleared the running flag *)
C32_StopHonored ==
    /\ [][(stop_event /\ fn.pc \in SleepPoints /\ fn' # fn) => fn'.pc = "top"]_vars
    /\ [][stop_event =>
            \A i \in DOMAIN prompts :
               prompts'[i].status = "running" => prompts[i].status = "running"]_vars
    /\ [](fn.pc = "exited" => ~w_running)

(* C35: whenever the running flag is true a loop thread is alive *)
C35_RunningOnlyWhileAlive ==
    w_running => \E t \in DOMAIN threads : threads[t] \in AliveStates

(* C33: after retry_job on a job that had a failed prompt, the job has
   cancel_requested = 0, a status that is not terminal and no finished_at,
   whatever it was before; each prompt it reset is pending and eligible, and
   next_pending_prompt returns one of the job's pending prompts unless the
   queue is paused *)
C33_RetryReopensJob ==
    (fn.op = "retry_job" /\ fn.failed # {}) =>
        /\ jobs[1].cancel_requested = 0
        /\ jobs[1].status \notin TerminalStatuses
        /\ jobs[1].finished_at = NULL
        /\ \A i \in fn.failed : Eligible(prompts, jobs, i)
        /\ ~paused => NextPendingPrompt(prompts, jobs, paused, 0) \in
                         {i \in DOMAIN prompts : prompts[i].status = "pending"}
        /\ ~paused => NextPendingPrompt(prompts, jobs, paused, 1) # 0

(* retry_job ran on a job that was stored canceled with cancel_requested = 1:
   its failed prompt is the next one the worker gets *)
C33_Witness ==
    /\ fn.op = "retry_job" /\ fn.failed = {2}
    /\ Len(prompts) = 2 /\ prompts[1].status = "canceled"
    /\ ~paused /\ NextPendingPrompt(prompts, jobs, paused, 0) = 2
    /\ jobs[1].status = "pending" /\ jobs[1].cancel_requested = 0

(* C34: at most one prompt is running, also when the worker starts on a store
   in which the previous run left a prompt running *)
C34_OneRunning ==
    Cardinality({i \in DOMAIN prompts : prompts[i].status = "running"}) <= 1

C37_RunningEnds ==
    /\ \A i \in 1..3 :
          (i \in DOMAIN prompts /\ prompts[i].status = "running")
             ~> (i \in DOMAIN prompts /\ prompts[i].status \in TerminalStatuses)
    /\ \A j \in 1..2 :
          (j \in DOMAIN jobs /\ jobs[j].status = "running")
             ~> (j \in DOMAIN jobs /\ jobs[j].status # "running")

(* the step is the whole of retry_job(j) *)
RetryJobStep(j) ==
    /\ prompts' = RetryPromptsUpdate(prompts, j)
    /\ jobs' = UpdateJobStatus(prompts', RetryJobUpdate(jobs, j), j)

(* C38: a step that changes the status of a job that is succeeded, failed or
   canceled is a step of retry_job on that job *)
C38_TerminalJobStays ==
    [][\A j \in DOMAIN jobs :
          (jobs[j].status \in TerminalStatuses /\ jobs'[j].status # jobs[j].status)
             => \/ api.op = "retry" /\ api.job = j /\ api' # api
                \/ RetryJobStep(j)]_vars

(* C39: a submit request answered with a validation error (400) has created no
   job and no prompt *)
C39_RejectedCreatesNothing ==
    (fn.op = "create_job" /\ fn.ret = 400) => (jobs = <<>> /\ prompts = <<>>)

(* C40: a pending prompt has no upstream prompt id, no started_at, no
   finished_at, no exit_status and no error_detail *)
C40_PendingIsClean ==
    \A i \in DOMAIN prompts :
       prompts[i].status = "pending" =>
          /\ prompts[i].prompt_id = NULL
          /\ prompts[i].started_at = NULL
          /\ prompts[i].finished_at = NULL
          /\ prompts[i].exit_status = NULL
          /\ prompts[i].error_detail = NULL

(* retry_job has just reset every prompt of its job: all of them had failed
   and all of them are pending *)
C40_Witness ==
    /\ api.op = "retry" /\ api.pc = "rt_job"
    /\ api.cnt > 0
    /\ api.cnt = Cardinality(PromptsOf(prompts, api.job))
    /\ \A i \in PromptsOf(prompts, api.job) : prompts[i].status = "pending"

====
